---- MODULE Spec2Model ----
(***************************************************************************)
(* ResumeMindAI: the human-in-the-loop triplet review                      *)
(* (CLIInterface.review_extracted_triplets and its handlers), the          *)
(* signature-based deduplication it performs when a requery returns, and   *)
(* the section segmentation of ResumeGraphExtractionWorkflow.              *)
(*                                                                         *)
(* Text is modelled as a sequence of one-character strings wherever the    *)
(* code looks inside it (split, strip, isdigit, int, regular expressions); *)
(* the three fields of a triplet are TLA+ strings and the signature is     *)
(* their concatenation, as in the code.                                    *)
(***************************************************************************)
EXTENDS Integers, Sequences, FiniteSets, TLC

VARIABLES
    \* ---- review_extracted_triplets -------------------------------------
    triplets,            \* graph_data.triplets
    requests,            \* graph_data.additional_extraction_requests
    formatted_resume,    \* argument of review_extracted_triplets
    graph_extractor,     \* argument of review_extracted_triplets
    additional_triplets, \* local of the loop iteration: what its requery returned
                         \* (<<>> when the iteration bound no value to it)
    choice,              \* local: the menu option chosen last
    remove_input,        \* local of _handle_remove_triplets: the text entered
    display,             \* what the last handler printed (message tags)
    approve_streak,      \* consecutive iterations of the loop with choice "1"
    pc,                  \* "Presented", "Approved", "Cancelled", "Raised"
    \* ---- the deduplication step on its own -----------------------------
    dd_existing,         \* graph_data.triplets handed to the step
    dd_candidates,       \* additional_triplets handed to the step
    dd_unique,           \* unique_additional of the first application
    dd_again,            \* unique_additional of the step applied to dd_unique
    dd_pc,               \* "input", "once", "twice"
    \* ---- _parse_resume_sections ----------------------------------------
    lines,               \* formatted_resume.split("\n")
    line_no,             \* number of lines the for loop has consumed
    sections,            \* sections
    current_section,     \* current_section (NoneValue when None)
    current_content,     \* current_content
    current_title,       \* current_title
    parse_pc,            \* "loop", "returned"
    \* ---- ResumeGraphExtractionWorkflow.run -----------------------------
    run_sections,        \* sections (what _parse_resume_sections returned)
    run_index,           \* number of sections the for loop has consumed
    run_responses,       \* what _process_section did for each section so far
    all_triplets,        \* all_triplets
    section_results,     \* section_results, as <<key, value>> in insertion order
    run_output,          \* the ResumeGraphExtractionOutput returned (or NoneValue)
    run_pc,              \* "loop", "returned"
    \* ---- EmbeddingService._chunk_text ----------------------------------
    ck_text,                \* text
    ck_max_chars,           \* max_chars
    ck_look_back,           \* the width of the look-back window (500 in the code)
    ck_chunks,              \* chunks
    ck_start,               \* start (0-based, as in the code)
    ck_cuts,                \* the values start has taken, in order
    ck_pc,                  \* "entry", "loop", "returned"
    \* ---- EmbeddingService.generate_embedding ---------------------------
    em_text,             \* text
    em_max_tokens,       \* self.max_tokens
    em_chunks,           \* chunks
    em_index,            \* number of chunks the for loop has consumed
    em_inputs,           \* every input handed to litellm.aembedding, in order
    em_outcomes,         \* what each of those calls did
    chunk_embeddings,    \* chunk_embeddings
    em_result,           \* the value returned
    em_pc,               \* "entry", "chunks", "returned"
    \* ---- EmbeddingService.generate_embeddings_batch --------------------
    bt_texts,            \* texts, each text reduced to its length
    bt_max_tokens,       \* self.max_tokens
    bt_batch_calls,      \* the inputs of the calls made with input=texts
    bt_single,           \* the texts handed to generate_embedding, in order
    bt_embeddings,       \* embeddings (the list returned)
    bt_pc,               \* "entry", "individually", "fallback", "returned"
    \* ---- GraphDatabaseService.store_resume_graph -----------------------
    st_triplets,         \* graph_data.triplets
    st_resume_id,        \* resume_id
    st_embeddings,       \* "none": the embedding arguments are None;
                         \* "all": they hold a vector for every triplet index
    graph_nodes,         \* the nodes of the graph, in creation order
    graph_edges,         \* the edges of the graph, in creation order
    st_queue,            \* the queries of the running call not yet executed
    st_results,          \* what the calls so far returned, in order
    st_pc,               \* "idle", "running"
    \* ---- store_resume_graph and delete_resume_graph over several resumes -
    sc_nodes,            \* the nodes of the graph, in creation order
    sc_edges,            \* the edges of the graph, in creation order
    sc_calls,            \* the calls made so far and what each returned
    \* ---- the text of the Cypher queries -------------------------------
    qy_value,            \* a string of the extracted data or of the caller
    qy_built,            \* the query fragments built from it, by slot
    \* ---- the two _cosine_similarity methods ---------------------------
    cs_vec1,             \* vec1
    cs_vec2,             \* vec2
    cs_graph,            \* what GraphDatabaseService._cosine_similarity returned
    cs_embedding,        \* what EmbeddingService._cosine_similarity returned
    \* ---- search_resume_by_query and search_all_resumes_by_query --------
    sr_rows,             \* the stored triplets: what MATCH (s)-[r]->(o) binds
    sr_query,            \* query_embedding
    sr_limit,            \* limit
    sr_resume_id,        \* resume_id
    sr_results,          \* what the search returned
    \* ---- complete_resume_ingestion_workflow ----------------------------
    ig_read,             \* what read_resume will do: "ok", "unreadable", "missing"
    ig_cleaning,         \* the response of ResumeCleaningWorkflow.run
    ig_extraction,       \* the response of ResumeGraphExtractionWorkflow.run
    ig_backend,          \* the graph database: "down", "up", "failing"
    ig_graph_ops,        \* the GraphDatabaseService methods entered, in order
    ig_result,           \* the dict returned
    ig_pc,               \* "read", "clean", "extract", "store", "returned", "raised"
    \* ---- ProviderStateService ------------------------------------------
    pv_providers,        \* the rows of the providers table, in insertion order
    pv_next_id,          \* the id AUTOINCREMENT gives the next inserted row
    pv_last,             \* the last call made and what it returned
    pv_count             \* number of calls made so far

reviewVars == <<triplets, requests, formatted_resume, graph_extractor,
                additional_triplets, choice, remove_input, display,
                approve_streak, pc>>
dedupeVars == <<dd_existing, dd_candidates, dd_unique, dd_again, dd_pc>>
parseVars  == <<lines, line_no, sections, current_section, current_content,
                current_title, parse_pc>>
runVars    == <<run_sections, run_index, run_responses, all_triplets,
                section_results, run_output, run_pc>>
chunkVars  == <<ck_text, ck_max_chars, ck_look_back, ck_chunks, ck_start, ck_cuts, ck_pc>>
embedVars  == <<em_text, em_max_tokens, em_chunks, em_index, em_inputs,
                em_outcomes, chunk_embeddings, em_result, em_pc>>
batchVars  == <<bt_texts, bt_max_tokens, bt_batch_calls, bt_single,
                bt_embeddings, bt_pc>>
storeVars  == <<st_triplets, st_resume_id, st_embeddings, graph_nodes,
                graph_edges, st_queue, st_results, st_pc>>
scopeVars  == <<sc_nodes, sc_edges, sc_calls>>
queryVars  == <<qy_value, qy_built>>
cosineVars == <<cs_vec1, cs_vec2, cs_graph, cs_embedding>>
searchVars == <<sr_rows, sr_query, sr_limit, sr_resume_id, sr_results>>
ingestVars == <<ig_read, ig_cleaning, ig_extraction, ig_backend, ig_graph_ops,
                ig_result, ig_pc>>
providerVars == <<pv_providers, pv_next_id, pv_last, pv_count>>
moreVars   == <<scopeVars, queryVars, cosineVars, searchVars, ingestVars,
                providerVars>>
newVars    == <<scopeVars, queryVars, cosineVars, searchVars, ingestVars>>
serviceVars == <<runVars, chunkVars, embedVars, batchVars, storeVars, moreVars>>
coreVars   == <<reviewVars, dedupeVars, parseVars, runVars, chunkVars, embedVars,
                batchVars, storeVars>>
vars == <<reviewVars, dedupeVars, parseVars, serviceVars>>

----------------------------------------------------------------------------
(* Bounds of the model                                                     *)

MaxTriplets == 3      \* longest triplet list explored
MaxCandidates == 2    \* longest list a requery returns
MaxRequests == 1      \* longest request queue explored
MaxTokens == 2        \* comma-separated tokens in a removal input
MaxStreak == 2        \* consecutive approve choices explored
MaxLines == 3         \* lines of a document handed to the segmenter
MaxSections == 3      \* sections of a document handed to run's loop
MaxResponse == 1      \* triplets one section's extraction returns
MaxTextLen == 7       \* characters of a text handed to _chunk_text
MaxChunkTokens == 1   \* largest max_tokens handed to _chunk_text
MaxBatch == 2         \* texts handed to generate_embeddings_batch
MaxStored == 2        \* triplets of the graph data handed to store_resume_graph
MaxRuns == 2          \* calls of store_resume_graph with the same arguments

----------------------------------------------------------------------------
(* Generic helpers                                                         *)

BoundedSeq(S, n) == UNION {[1..k -> S] : k \in 0..n}

Range(s) == {s[i] : i \in DOMAIN s}

NoneValue == "<None>"

\* Python truthiness of an argument that is None, a string or an object.
Truthy(v) == v # NoneValue /\ v # ""

----------------------------------------------------------------------------
(* Triplets and the deduplication step                                     *)

\* GraphTriplet, reduced to the three fields the review compares.  The
\* values include the delimiter character of the signature.
Subjects   == {"a", "a|b"}
Predicates == {"c", "b|c"}
Objects    == {"d", "e"}

\* Two of its triplets differ in subject and predicate and have one signature.
TripletUniverse ==
    {t \in [subject : Subjects, predicate : Predicates, object : Objects] :
        \/ t.object = "d" /\ ~(t.subject = "a|b" /\ t.predicate = "b|c")
        \/ t.object = "e" /\ t.subject = "a" /\ t.predicate = "c"}

\* f"{triplet.subject}|{triplet.predicate}|{triplet.object}"
Signature(t) == t.subject \o "|" \o t.predicate \o "|" \o t.object

\* existing_signatures after the first loop
ExistingSignatures(ts) == {Signature(ts[i]) : i \in DOMAIN ts}

RECURSIVE FilterUnique(_, _, _)
FilterUnique(cands, sigs, acc) ==
    IF cands = <<>> THEN acc
    ELSE LET t == Head(cands)
             s == Signature(t)
         IN  IF s \notin sigs
             THEN FilterUnique(Tail(cands), sigs \cup {s}, Append(acc, t))
             ELSE FilterUnique(Tail(cands), sigs, acc)

\* Mutant: candidates are compared with the existing signatures only; an
\* accepted candidate's signature is not added to the set.
UniqueAdditional_ExistingOnly(existing, cands) ==
    SelectSeq(cands, LAMBDA t : Signature(t) \notin ExistingSignatures(existing))

\* Mutant: the filter keeps the candidates that are already known.
UniqueAdditional_Inverted(existing, cands) ==
    SelectSeq(cands, LAMBDA t : Signature(t) \in ExistingSignatures(existing))

\* unique_additional
UniqueAdditional(existing, cands) ==
    FilterUnique(cands, ExistingSignatures(existing), <<>>)

----------------------------------------------------------------------------
(* Text helpers: str.strip, str.split(","), str.isdigit, int               *)

Whitespace == {" ", "\n"}

RECURSIVE LStrip(_)
LStrip(s) ==
    IF s # <<>> /\ Head(s) \in Whitespace THEN LStrip(Tail(s)) ELSE s

RECURSIVE RStrip(_)
RStrip(s) ==
    IF s # <<>> /\ s[Len(s)] \in Whitespace
    THEN RStrip(SubSeq(s, 1, Len(s) - 1)) ELSE s

Strip(s) == RStrip(LStrip(s))

\* s.split(sep): always at least one piece
RECURSIVE SplitAcc(_, _, _, _)
SplitAcc(s, sep, cur, acc) ==
    IF s = <<>> THEN Append(acc, cur)
    ELSE IF Head(s) = sep
         THEN SplitAcc(Tail(s), sep, <<>>, Append(acc, cur))
         ELSE SplitAcc(Tail(s), sep, Append(cur, Head(s)), acc)

Split(s, sep) == SplitAcc(s, sep, <<>>, <<>>)

\* sep.join(parts)
RECURSIVE Join(_, _)
Join(parts, sep) ==
    IF parts = <<>> THEN <<>>
    ELSE IF Len(parts) = 1 THEN parts[1]
         ELSE parts[1] \o <<sep>> \o Join(Tail(parts), sep)

DecimalDigits == {"0", "1", "2", "3", "4", "5", "6", "7", "8", "9"}

\* "sup2" stands for the character U+00B2: str.isdigit() accepts it and
\* int() rejects it with ValueError.
DigitLike == DecimalDigits \cup {"sup2"}

\* x.isdigit()
IsDigit(s) == s # <<>> /\ \A i \in DOMAIN s : s[i] \in DigitLike

\* int(x) raises ValueError unless every character is a decimal digit
IntRaises(s) == s = <<>> \/ \E i \in DOMAIN s : s[i] \notin DecimalDigits

DigitValue(c) ==
    CASE c = "0" -> 0 [] c = "1" -> 1 [] c = "2" -> 2 [] c = "3" -> 3
      [] c = "4" -> 4 [] c = "5" -> 5 [] c = "6" -> 6 [] c = "7" -> 7
      [] c = "8" -> 8 [] c = "9" -> 9

RECURSIVE IntValue(_)
IntValue(s) ==
    IF s = <<>> THEN 0
    ELSE IntValue(SubSeq(s, 1, Len(s) - 1)) * 10 + DigitValue(s[Len(s)])

----------------------------------------------------------------------------
(* _handle_remove_triplets                                                 *)

\* The tokens a removal input is made of: an index, an index with a blank
\* before it, a word, a blank, and a digit-like character that int() rejects.
RemoveTokens ==
    { <<"1">>, <<" ", "2">>, <<"x">>, <<" ">>, <<"sup2">> }

RemoveInputs ==
    { Join(ts, ",") : ts \in (BoundedSeq(RemoveTokens, MaxTokens) \ {<<>>}) }

\* [x for x in remove_input.split(",") if x.strip().isdigit()]
DigitTokens(input) ==
    SelectSeq(Split(input, ","), LAMBDA x : IsDigit(Strip(x)))

\* the int() of the first comprehension raises ValueError
ParseRaises(input) ==
    \E i \in DOMAIN DigitTokens(input) : IntRaises(Strip(DigitTokens(input)[i]))

\* the first comprehension: int(x.strip()) - 1 of every digit token
ParsedIndices(input) ==
    LET toks == DigitTokens(input)
    IN  [i \in DOMAIN toks |-> IntValue(Strip(toks[i])) - 1]

\* What the handler reads off the text entered, before it looks at the list.
ParseRemoveInput(input) ==
    [blank   |-> Strip(input) = <<>>,
     raises  |-> ParseRaises(input),
     indices |-> IF ParseRaises(input) THEN <<>> ELSE ParsedIndices(input)]

\* ParseRemoveInput, tabulated over the inputs of the model
ParsedRemoveInputs == [input \in RemoveInputs |-> ParseRemoveInput(input)]

\* the second comprehension: [i for i in indices_to_remove if 0 <= i < len]
IndicesToRemove(indices, n) ==
    SelectSeq(indices, LAMBDA i : 0 <= i /\ i < n)

SeqMax(s) == CHOOSE m \in Range(s) : \A x \in Range(s) : x <= m

FirstAt(s, v) == CHOOSE i \in DOMAIN s : s[i] = v /\ \A j \in 1..(i - 1) : s[j] # v

DropAt(s, i) == SubSeq(s, 1, i - 1) \o SubSeq(s, i + 1, Len(s))

\* sorted(indices_to_remove, reverse=True): repeated entries are kept
RECURSIVE SortedReverse(_)
SortedReverse(s) ==
    IF s = <<>> THEN <<>>
    ELSE LET m == SeqMax(s)
         IN  <<m>> \o SortedReverse(DropAt(s, FirstAt(s, m)))

\* for i in order: list.pop(i); pop raises IndexError when i >= len(list),
\* and what was popped before stays popped
RECURSIVE PopEach(_, _)
PopEach(list, order) ==
    IF order = <<>> THEN [list |-> list, raised |-> FALSE]
    ELSE IF Head(order) >= Len(list)
         THEN [list |-> list, raised |-> TRUE]
         ELSE PopEach(DropAt(list, Head(order) + 1), Tail(order))

RemoveResult(list, indices) ==
    PopEach(list, SortedReverse(IndicesToRemove(indices, Len(list))))

HandleRemoveTriplets(input) ==
    LET parsed == ParsedRemoveInputs[input]
    IN  /\ pc = "Presented"
        /\ choice' = "3"
        /\ approve_streak' = 0
        /\ additional_triplets' = <<>>
        /\ UNCHANGED <<requests, formatted_resume, graph_extractor>>
        /\ IF triplets = <<>>
           THEN \* early return, before the prompt
                /\ display' = <<"no_triplets_to_remove">>
                /\ UNCHANGED <<triplets, pc>>
           ELSE IF parsed.blank
           THEN /\ display' = <<"none_specified">>
                /\ UNCHANGED <<triplets, pc>>
           ELSE IF parsed.raises
           THEN \* except ValueError
                /\ display' = <<"invalid_input_format">>
                /\ UNCHANGED <<triplets, pc>>
           ELSE IF IndicesToRemove(parsed.indices, Len(triplets)) = <<>>
           THEN /\ display' = <<"no_valid_numbers">>
                /\ UNCHANGED <<triplets, pc>>
           ELSE LET r == RemoveResult(triplets, parsed.indices)
                IN  /\ triplets' = r.list
                    /\ IF r.raised
                       THEN \* IndexError leaves the review loop
                            /\ display' = <<"removed">>
                            /\ pc' = "Raised"
                       ELSE /\ display' = <<"removed", "removed_count">>
                            /\ UNCHANGED pc

----------------------------------------------------------------------------
(* review_extracted_triplets: the other menu options                       *)

\* What the user may type as an additional request.
InfoInputs == { <<>>, <<" ">>, <<"c">> }

HandleAddInformationRequest(additional_info) ==
    /\ pc = "Presented"
    /\ choice' = "2"
    /\ approve_streak' = 0
    /\ additional_triplets' = <<>>
    /\ UNCHANGED <<triplets, formatted_resume, graph_extractor, pc>>
    /\ IF Strip(additional_info) # <<>>
       THEN /\ Len(requests) < MaxRequests
            /\ requests' = Append(requests, additional_info)
            /\ display' = <<"added_request">>
       ELSE /\ display' = <<"no_information_specified">>
            /\ UNCHANGED requests

HandleShowDetailedTripletView ==
    /\ pc = "Presented"
    /\ choice' = "4"
    /\ approve_streak' = 0
    /\ additional_triplets' = <<>>
    /\ display' = IF triplets = <<>> THEN <<"no_triplets_to_display">>
                  ELSE <<"detailed_view">>
    /\ UNCHANGED <<triplets, requests, formatted_resume, graph_extractor, pc>>

HandleCancel(confirmed) ==
    /\ pc = "Presented"
    /\ choice' = "5"
    /\ approve_streak' = 0
    /\ additional_triplets' = <<>>
    /\ UNCHANGED <<triplets, requests, formatted_resume, graph_extractor>>
    /\ IF confirmed
       THEN /\ pc' = "Cancelled"
            /\ display' = <<"cancelled">>
       ELSE /\ display' = <<>>
            /\ UNCHANGED pc

----------------------------------------------------------------------------
(* review_extracted_triplets: approve (choice 1)                           *)

\* the first if of the branch: is a requery run?
RequeryRuns ==
    requests # <<>> /\ Truthy(formatted_resume) /\ Truthy(graph_extractor)

\* "if not graph_data.additional_extraction_requests: return True",
\* evaluated on the queue as the branch left it
ApprovalCheck(queue, printed) ==
    IF queue = <<>>
    THEN /\ pc' = "Approved"
         /\ display' = printed \o <<"approved">>
    ELSE /\ pc' = pc
         /\ display' = printed

\* Mutant: the "continue" is missing, so the merge falls through to the
\* approval check.
RequeryFound_FallsThrough(cands) ==
    LET unique_additional == UniqueAdditional(triplets, cands)
    IN  /\ cands # <<>>
        /\ Len(triplets) + Len(unique_additional) <= MaxTriplets
        /\ additional_triplets' = cands
        /\ triplets' = triplets \o unique_additional
        /\ requests' = <<>>
        /\ ApprovalCheck(requests', <<"processing", "updated_set">>)

\* extract_additional_triplets returned a non-empty list: merge, clear and
\* continue the loop
RequeryFound(cands) ==
    LET unique_additional == UniqueAdditional(triplets, cands)
    IN  /\ cands # <<>>
        /\ Len(triplets) + Len(unique_additional) <= MaxTriplets
        /\ additional_triplets' = cands
        /\ triplets' = triplets \o unique_additional
        /\ requests' = <<>>
        /\ display' = <<"processing">> \o
                       (IF Len(unique_additional) > 0
                        THEN <<"added_new">> \o
                             (IF Len(cands) > Len(unique_additional)
                              THEN <<"filtered_duplicates">> ELSE <<>>)
                        ELSE <<"all_duplicates">>) \o
                       <<"updated_set">>
        /\ pc' = pc

\* extract_additional_triplets returned []: clear, then fall through to the
\* approval check
RequeryEmpty ==
    /\ additional_triplets' = <<>>
    /\ requests' = <<>>
    /\ UNCHANGED triplets
    /\ ApprovalCheck(requests', <<"processing", "no_additional_information">>)

\* Mutant: the except clause does not clear the queue.
RequeryFailed_KeepsQueue ==
    /\ additional_triplets' = <<>>
    /\ UNCHANGED <<triplets, requests>>
    /\ ApprovalCheck(requests', <<"processing", "error">>)

\* extract_additional_triplets raised: the except clause clears the queue,
\* then the approval check runs
RequeryFailed ==
    /\ additional_triplets' = <<>>
    /\ requests' = <<>>
    /\ UNCHANGED triplets
    /\ ApprovalCheck(requests', <<"processing", "error">>)

\* no requery: straight to the approval check
ApproveWithoutRequery ==
    /\ additional_triplets' = <<>>
    /\ UNCHANGED <<triplets, requests>>
    /\ ApprovalCheck(requests, <<>>)

HandleApprove ==
    /\ pc = "Presented"
    /\ approve_streak < MaxStreak
    /\ choice' = "1"
    /\ approve_streak' = approve_streak + 1
    /\ UNCHANGED <<formatted_resume, graph_extractor>>
    /\ IF RequeryRuns
       THEN \/ \E cands \in BoundedSeq(TripletUniverse, MaxCandidates) :
                  RequeryFound(cands)
            \/ RequeryEmpty
            \/ RequeryFailed
       ELSE ApproveWithoutRequery

----------------------------------------------------------------------------
(* The review as a state machine                                           *)

\* (formatted_resume, graph_extractor) as a caller passes them: the defaults
\* of the signature, or both given.
CallArguments ==
    { <<NoneValue, NoneValue>>, <<"# Skills", "graph_extractor">> }

InitReview ==
    /\ triplets \in BoundedSeq(TripletUniverse, MaxTriplets)
    /\ requests = <<>>
    /\ \E args \in CallArguments :
           formatted_resume = args[1] /\ graph_extractor = args[2]
    /\ additional_triplets = <<>>
    /\ choice = ""
    /\ remove_input = <<>>
    /\ display = <<>>
    /\ approve_streak = 0
    /\ pc = "Presented"

IdleDedupe ==
    /\ dd_existing = <<>>
    /\ dd_candidates = <<>>
    /\ dd_unique = <<>>
    /\ dd_again = <<>>
    /\ dd_pc = "input"

IdleParse ==
    /\ lines = <<>>
    /\ line_no = 0
    /\ sections = <<>>
    /\ current_section = NoneValue
    /\ current_content = <<>>
    /\ current_title = <<>>
    /\ parse_pc = "returned"

IdleRun ==
    /\ run_sections = <<>>
    /\ run_index = 0
    /\ run_responses = <<>>
    /\ all_triplets = <<>>
    /\ section_results = <<>>
    /\ run_output = NoneValue
    /\ run_pc = "returned"

IdleChunk ==
    /\ ck_text = <<>>
    /\ ck_max_chars = 0
    /\ ck_look_back = 0
    /\ ck_chunks = <<>>
    /\ ck_start = 0
    /\ ck_cuts = <<>>
    /\ ck_pc = "returned"

IdleEmbed ==
    /\ em_text = <<>>
    /\ em_max_tokens = 0
    /\ em_chunks = <<>>
    /\ em_index = 0
    /\ em_inputs = <<>>
    /\ em_outcomes = <<>>
    /\ chunk_embeddings = <<>>
    /\ em_result = <<>>
    /\ em_pc = "returned"

IdleBatch ==
    /\ bt_texts = <<>>
    /\ bt_max_tokens = 0
    /\ bt_batch_calls = <<>>
    /\ bt_single = <<>>
    /\ bt_embeddings = <<>>
    /\ bt_pc = "returned"

IdleStore ==
    /\ st_triplets = <<>>
    /\ st_resume_id = ""
    /\ st_embeddings = "none"
    /\ graph_nodes = <<>>
    /\ graph_edges = <<>>
    /\ st_queue = <<>>
    /\ st_results = <<>>
    /\ st_pc = "idle"

IdleScopes ==
    /\ sc_nodes = <<>>
    /\ sc_edges = <<>>
    /\ sc_calls = <<>>

IdleQuery ==
    /\ qy_value = <<>>
    /\ qy_built = <<>>

\* 0.0, as the quotient dot / sqrt(square1 * square2)
ZeroSimilarity == [dot |-> 0, square1 |-> 1, square2 |-> 1]

NotCalled == [called |-> FALSE, value |-> ZeroSimilarity]

IdleCosine ==
    /\ cs_vec1 = <<>>
    /\ cs_vec2 = <<>>
    /\ cs_graph = NotCalled
    /\ cs_embedding = NotCalled

NotSearched == [by |-> "none", results |-> <<>>]

IdleSearch ==
    /\ sr_rows = <<>>
    /\ sr_query = <<>>
    /\ sr_limit = 0
    /\ sr_resume_id = ""
    /\ sr_results = NotSearched

NoResponse == [validation_status |-> FALSE, validation_message |-> ""]

NoResult == [success |-> FALSE, error |-> <<>>]

IdleIngest ==
    /\ ig_read = "ok"
    /\ ig_cleaning = NoResponse
    /\ ig_extraction = NoResponse
    /\ ig_backend = "down"
    /\ ig_graph_ops = <<>>
    /\ ig_result = NoResult
    /\ ig_pc = "returned"

IdleProvider ==
    /\ pv_providers = <<>>
    /\ pv_next_id = 1
    /\ pv_last = [op |-> "none", returned |-> 0]
    /\ pv_count = 0

IdleMore ==
    /\ IdleScopes /\ IdleQuery /\ IdleCosine /\ IdleSearch /\ IdleIngest
    /\ IdleProvider

IdleServices ==
    IdleRun /\ IdleChunk /\ IdleEmbed /\ IdleBatch /\ IdleStore /\ IdleMore

Init == InitReview /\ IdleDedupe /\ IdleParse /\ IdleServices

Approve ==
    HandleApprove /\ UNCHANGED <<remove_input, dedupeVars, parseVars, serviceVars>>

AddInformationRequest ==
    /\ \E additional_info \in InfoInputs :
           HandleAddInformationRequest(additional_info)
    /\ UNCHANGED <<remove_input, dedupeVars, parseVars, serviceVars>>

RemoveTriplets ==
    /\ \E input \in RemoveInputs : HandleRemoveTriplets(input)
    /\ UNCHANGED <<remove_input, dedupeVars, parseVars, serviceVars>>

ShowDetailedTripletView ==
    HandleShowDetailedTripletView /\ UNCHANGED <<remove_input, dedupeVars, parseVars, serviceVars>>

Cancel ==
    /\ \E confirmed \in BOOLEAN : HandleCancel(confirmed)
    /\ UNCHANGED <<remove_input, dedupeVars, parseVars, serviceVars>>

Next ==
    \/ Approve
    \/ AddInformationRequest
    \/ RemoveTriplets
    \/ ShowDetailedTripletView
    \/ Cancel

Spec == Init /\ [][Next]_vars

----------------------------------------------------------------------------
(* _handle_remove_triplets on its own, with the text entered kept          *)

IdleReview ==
    /\ triplets = <<>>
    /\ requests = <<>>
    /\ formatted_resume = NoneValue
    /\ graph_extractor = NoneValue
    /\ additional_triplets = <<>>
    /\ choice = ""
    /\ remove_input = <<>>
    /\ display = <<>>
    /\ approve_streak = 0
    /\ pc = "Presented"

InitRemove ==
    /\ triplets \in BoundedSeq(TripletUniverse, MaxTriplets)
    /\ requests \in BoundedSeq({<<"c">>}, MaxRequests)
    /\ formatted_resume = NoneValue
    /\ graph_extractor = NoneValue
    /\ additional_triplets = <<>>
    /\ choice = ""
    /\ remove_input = <<>>
    /\ display = <<>>
    /\ approve_streak = 0
    /\ pc = "Presented"
    /\ IdleDedupe /\ IdleParse /\ IdleServices

RemoveTripletsEntered ==
    /\ \E input \in RemoveInputs :
           /\ HandleRemoveTriplets(input)
           /\ remove_input' = IF triplets = <<>> THEN remove_input ELSE input
    /\ UNCHANGED <<dedupeVars, parseVars, serviceVars>>

NextRemove == RemoveTripletsEntered

SpecRemove == InitRemove /\ [][NextRemove]_vars

----------------------------------------------------------------------------
(* The deduplication step on its own                                       *)

InitDedupe ==
    /\ dd_existing \in BoundedSeq(TripletUniverse, MaxCandidates)
    /\ dd_candidates \in BoundedSeq(TripletUniverse, MaxTriplets)
    /\ dd_unique = <<>>
    /\ dd_again = <<>>
    /\ dd_pc = "input"
    /\ IdleReview /\ IdleParse /\ IdleServices

DedupeOnce ==
    /\ dd_pc = "input"
    /\ dd_unique' = UniqueAdditional(dd_existing, dd_candidates)
    /\ dd_pc' = "once"
    /\ UNCHANGED <<dd_existing, dd_candidates, dd_again, reviewVars, parseVars, serviceVars>>

DedupeAgain ==
    /\ dd_pc = "once"
    /\ dd_again' = UniqueAdditional(dd_existing, dd_unique)
    /\ dd_pc' = "twice"
    /\ UNCHANGED <<dd_existing, dd_candidates, dd_unique, reviewVars, parseVars, serviceVars>>

NextDedupe == DedupeOnce \/ DedupeAgain

SpecDedupe == InitDedupe /\ [][NextDedupe]_vars

----------------------------------------------------------------------------
(* ResumeGraphExtractionWorkflow._parse_resume_sections                    *)
(*                                                                         *)
(* A line is a sequence of characters; a heading keyword ("skills",        *)
(* "experience", ...) is one element of the sequence, since the patterns   *)
(* never look inside it.                                                   *)

\* section_patterns: the word that follows the '#'s, and its section type
\* (one word per pattern; the alternatives of a pattern behave alike)
SectionPatterns ==
    [w \in {"education", "experience", "skills", "projects", "publications",
            "contact", "summary", "awards", "volunteer", "certifications"}
        |-> w]

RECURSIVE DropWhile(_, _)
DropWhile(s, chars) ==
    IF s # <<>> /\ Head(s) \in chars THEN DropWhile(Tail(s), chars) ELSE s

\* what re.match(r"(?i)^#+\s*(keyword...)", text) looks at after "#+\s*"
AfterHashes(text) == DropWhile(DropWhile(text, {"#"}), Whitespace)

\* section_type after the loop over section_patterns, for line.strip()
SectionTypeOf(line) ==
    LET text == Strip(line)
    IN  IF /\ text # <<>>
           /\ Head(text) = "#"
           /\ AfterHashes(text) # <<>>
           /\ Head(AfterHashes(text)) \in DOMAIN SectionPatterns
        THEN SectionPatterns[Head(AfterHashes(text))]
        ELSE NoneValue

\* Mutant: the content is joined but not stripped.
SectionContent_Unstripped(content_lines) == Join(content_lines, "\n")

\* "\n".join(current_content).strip()
SectionContent(content_lines) == Strip(Join(content_lines, "\n"))

\* the dictionary appended to sections
SectionOf(type, title, content_lines) ==
    [section_type |-> type, title |-> title,
     content |-> SectionContent(content_lines)]

\* The lines a document is made of: empty, blank, text, text with blanks
\* around it, two headings that match a pattern and one that matches none.
LineChoices ==
    { <<>>, <<" ">>, <<"x">>, <<" ", "x", " ">>,
      <<"#", "skills">>, <<" ", "#", "#", " ", "experience", " ">>,
      <<"#", "x">> }

\* formatted_resume.split("\n") has at least one line
InitParse ==
    /\ lines \in (BoundedSeq(LineChoices, MaxLines) \ {<<>>})
    /\ line_no = 0
    /\ sections = <<>>
    /\ current_section = NoneValue
    /\ current_content = <<>>
    /\ current_title = <<>>
    /\ parse_pc = "loop"
    /\ IdleReview /\ IdleDedupe /\ IdleServices

\* an iteration of the for loop whose line matches a section pattern
StartNewSection ==
    /\ parse_pc = "loop"
    /\ line_no < Len(lines)
    /\ LET line == lines[line_no + 1]
       IN  /\ SectionTypeOf(line) # NoneValue
           /\ sections' = IF current_section # NoneValue /\ current_content # <<>>
                          THEN Append(sections,
                                      SectionOf(current_section, current_title,
                                                current_content))
                          ELSE sections
           /\ current_section' = SectionTypeOf(line)
           /\ current_title' = Strip(line)
           /\ current_content' = <<line>>
    /\ line_no' = line_no + 1
    /\ UNCHANGED <<lines, parse_pc, reviewVars, dedupeVars, serviceVars>>

\* an iteration of the for loop whose line matches no pattern
AddLineToSection ==
    /\ parse_pc = "loop"
    /\ line_no < Len(lines)
    /\ LET line == lines[line_no + 1]
       IN  /\ SectionTypeOf(line) = NoneValue
           /\ IF current_section # NoneValue
              THEN /\ current_content' = Append(current_content, line)
                   /\ UNCHANGED <<current_section, current_title>>
              ELSE \* content before the first section
                   /\ current_section' = "header"
                   /\ current_title' = <<"Header Information">>
                   /\ current_content' = <<line>>
    /\ line_no' = line_no + 1
    /\ UNCHANGED <<lines, sections, parse_pc, reviewVars, dedupeVars, serviceVars>>

\* after the loop: add the last section and return
ReturnSections ==
    /\ parse_pc = "loop"
    /\ line_no = Len(lines)
    /\ sections' = IF current_section # NoneValue /\ current_content # <<>>
                   THEN Append(sections,
                               SectionOf(current_section, current_title,
                                         current_content))
                   ELSE sections
    /\ parse_pc' = "returned"
    /\ UNCHANGED <<lines, line_no, current_section, current_content,
                   current_title, reviewVars, dedupeVars, serviceVars>>

NextParse == StartNewSection \/ AddLineToSection \/ ReturnSections

SpecParse == InitParse /\ [][NextParse]_vars

----------------------------------------------------------------------------
(* ResumeGraphExtractionWorkflow.run                                       *)

\* The sections run's loop iterates over: what _parse_resume_sections
\* returns for documents such as "x", "# skills", "# skills\n# skills",
\* "x\n# experience\n# skills".  A header section can only come first.
HeaderSection == SectionOf("header", <<"Header Information">>, << <<"x">> >>)

HeadedSections ==
    { SectionOf("skills", <<"#", "skills">>, << <<"#", "skills">> >>),
      SectionOf("experience", <<"#", "experience">>, << <<"#", "experience">> >>) }

RunSectionLists ==
    { ss \in BoundedSeq(HeadedSections \cup {HeaderSection}, MaxSections) :
        /\ ss # <<>>
        /\ \A i \in DOMAIN ss : ss[i] = HeaderSection => i = 1 }

\* the triplets a section's extraction returns
RunTriplets ==
    { t \in TripletUniverse : t.subject = "a" /\ t.predicate = "c" }

\* _process_section: raises, or returns a list (an empty or missing
\* triplets field of the formatter's response gives [])
ProcessSectionRaises == [raised |-> TRUE, triplets |-> <<>>]

ProcessSectionOutcomes ==
    {ProcessSectionRaises} \cup
    {[raised |-> FALSE, triplets |-> ts] :
        ts \in BoundedSeq(RunTriplets, MaxResponse)}

\* d[key] = value on a dict kept in insertion order
RECURSIVE DictSet(_, _, _)
DictSet(d, key, value) ==
    IF d = <<>> THEN << <<key, value>> >>
    ELSE IF Head(d)[1] = key THEN << <<key, value>> >> \o Tail(d)
    ELSE << Head(d) >> \o DictSet(Tail(d), key, value)

InitRun ==
    /\ run_sections \in RunSectionLists
    /\ run_index = 0
    /\ run_responses = <<>>
    /\ all_triplets = <<>>
    /\ section_results = <<>>
    /\ run_output = NoneValue
    /\ run_pc = "loop"
    /\ IdleReview /\ IdleDedupe /\ IdleParse /\ IdleMore /\ IdleChunk /\ IdleEmbed /\ IdleBatch /\ IdleStore

\* an iteration of the loop whose _process_section returns
ProcessSectionSucceeds ==
    /\ run_pc = "loop"
    /\ run_index < Len(run_sections)
    /\ \E outcome \in ProcessSectionOutcomes \ {ProcessSectionRaises} :
        LET section_triplets == outcome.triplets
        IN  /\ all_triplets' = all_triplets \o section_triplets
            /\ section_results' =
                   DictSet(section_results,
                           run_sections[run_index + 1].section_type,
                           Len(section_triplets))
            /\ run_responses' = Append(run_responses, outcome)
    /\ run_index' = run_index + 1
    /\ UNCHANGED <<run_sections, run_output, run_pc,
                   reviewVars, dedupeVars, parseVars, chunkVars, embedVars, batchVars, storeVars, moreVars>>

\* Mutant: a failed section discards what the earlier sections produced.
ProcessSectionFails_DropsAll ==
    /\ run_pc = "loop"
    /\ run_index < Len(run_sections)
    /\ all_triplets' = <<>>
    /\ section_results' =
           DictSet(section_results,
                   run_sections[run_index + 1].section_type, 0)
    /\ run_responses' = Append(run_responses, ProcessSectionRaises)
    /\ run_index' = run_index + 1
    /\ UNCHANGED <<run_sections, run_output, run_pc,
                   reviewVars, dedupeVars, parseVars, chunkVars, embedVars, batchVars, storeVars, moreVars>>

\* an iteration of the loop whose _process_section raises
ProcessSectionFails ==
    /\ run_pc = "loop"
    /\ run_index < Len(run_sections)
    /\ section_results' =
           DictSet(section_results,
                   run_sections[run_index + 1].section_type, 0)
    /\ run_responses' = Append(run_responses, ProcessSectionRaises)
    /\ run_index' = run_index + 1
    /\ UNCHANGED <<run_sections, all_triplets, run_output, run_pc,
                   reviewVars, dedupeVars, parseVars, chunkVars, embedVars, batchVars, storeVars, moreVars>>

\* after the loop: the summary and the returned output.  The message is
\* kept as the numbers it is formatted from.
ReturnOutput ==
    /\ run_pc = "loop"
    /\ run_index = Len(run_sections)
    /\ run_output' =
           [triplets |-> all_triplets,
            validation_status |-> TRUE,
            validation_message |->
                [sections |-> Len(run_sections),
                 total_triplets |-> Len(all_triplets),
                 section_counts |-> section_results],
            additional_extraction_requests |-> <<>>]
    /\ run_pc' = "returned"
    /\ UNCHANGED <<run_sections, run_index, run_responses, all_triplets,
                   section_results, reviewVars, dedupeVars, parseVars, chunkVars, embedVars, batchVars, storeVars, moreVars>>

NextRun == ProcessSectionSucceeds \/ ProcessSectionFails \/ ReturnOutput

SpecRun == InitRun /\ [][NextRun]_vars

----------------------------------------------------------------------------
(* EmbeddingService._chunk_text                                            *)
(*                                                                         *)
(* Positions are 0-based and slices are half-open, as in the code.         *)

CharsPerToken == 4

\* the code's look-back window, and one scaled to the texts explored here
LookBackWindows == {2, 500}

TextChars == {"a", ".", " "}

Max2(a, b) == IF a > b THEN a ELSE b

\* text[lo:hi]
Slice(s, lo, hi) ==
    SubSeq(s, lo + 1, IF hi > Len(s) THEN Len(s) ELSE hi)

\* text.rfind(delimiter, lo, hi): the last position in lo..hi-len(delimiter)
\* where the delimiter starts, or -1
RFind(s, delimiter, lo, hi) ==
    LET found == {p \in lo..(hi - Len(delimiter)) :
                     Slice(s, p, p + Len(delimiter)) = delimiter}
    IN  IF found = {} THEN -1
        ELSE CHOOSE p \in found : \A q \in found : q <= p

Delimiters ==
    << <<".", " ">>, <<".", "\n">>, <<"!", " ">>, <<"!", "\n">>,
       <<"?", " ">>, <<"?", "\n">> >>

\* sentence_end after the loop over the delimiters; the code compares the
\* position found with the end recorded so far
RECURSIVE SentenceEnd(_, _, _, _, _)
SentenceEnd(s, delimiters, search_start, end, sentence_end) ==
    IF delimiters = <<>> THEN sentence_end
    ELSE LET delimiter == Head(delimiters)
             pos == RFind(s, delimiter, search_start, end)
         IN  SentenceEnd(s, Tail(delimiters), search_start, end,
                         IF pos > sentence_end
                         THEN pos + Len(delimiter) ELSE sentence_end)

\* Mutant: a sentence boundary is looked for up to one delimiter past the
\* hard limit.
ChunkEnd_PastLimit(s, from, limit, window) ==
    LET end == from + limit
    IN  IF end < Len(s)
        THEN LET search_start == Max2(from, end - window)
                 sentence_end == SentenceEnd(s, Delimiters, search_start,
                                             end + 2, -1)
             IN  IF sentence_end > from THEN sentence_end ELSE end
        ELSE end

\* end, when text[start:end] is cut
ChunkEnd(s, from, limit, window) ==
    LET end == from + limit
    IN  IF end < Len(s)
        THEN LET search_start == Max2(from, end - window)
                 sentence_end == SentenceEnd(s, Delimiters, search_start, end, -1)
             IN  IF sentence_end > from THEN sentence_end ELSE end
        ELSE end

\* chunk = text[start:end].strip(); if chunk: chunks.append(chunk)
AppendChunk(cs, piece) ==
    IF Strip(piece) # <<>> THEN Append(cs, Strip(piece)) ELSE cs

InitChunk ==
    /\ ck_text \in BoundedSeq(TextChars, MaxTextLen)
    /\ \E max_tokens \in 1..MaxChunkTokens : ck_max_chars = max_tokens * CharsPerToken
    /\ ck_look_back \in LookBackWindows
    /\ ck_chunks = <<>>
    /\ ck_start = 0
    /\ ck_cuts = <<>>
    /\ ck_pc = "entry"
    /\ IdleReview /\ IdleDedupe /\ IdleParse /\ IdleMore /\ IdleRun /\ IdleEmbed /\ IdleBatch /\ IdleStore

\* len(text) <= max_chars: return [text]
ReturnWholeText ==
    /\ ck_pc = "entry"
    /\ Len(ck_text) <= ck_max_chars
    /\ ck_chunks' = <<ck_text>>
    /\ ck_pc' = "returned"
    /\ UNCHANGED <<ck_text, ck_max_chars, ck_look_back, ck_start, ck_cuts,
                   reviewVars, dedupeVars, parseVars, runVars, embedVars, batchVars, storeVars, moreVars>>

EnterChunkLoop ==
    /\ ck_pc = "entry"
    /\ Len(ck_text) > ck_max_chars
    /\ ck_pc' = "loop"
    /\ UNCHANGED <<ck_text, ck_max_chars, ck_look_back, ck_chunks, ck_start, ck_cuts,
                   reviewVars, dedupeVars, parseVars, runVars, embedVars, batchVars, storeVars, moreVars>>

\* an iteration of the while loop
CutChunk ==
    /\ ck_pc = "loop"
    /\ ck_start < Len(ck_text)
    /\ LET end == ChunkEnd(ck_text, ck_start, ck_max_chars, ck_look_back)
       IN  /\ ck_chunks' = AppendChunk(ck_chunks, Slice(ck_text, ck_start, end))
           /\ ck_start' = end
           /\ ck_cuts' = Append(ck_cuts, ck_start)
    /\ UNCHANGED <<ck_text, ck_max_chars, ck_look_back, ck_pc,
                   reviewVars, dedupeVars, parseVars, runVars, embedVars, batchVars, storeVars, moreVars>>

ReturnChunks ==
    /\ ck_pc = "loop"
    /\ ck_start >= Len(ck_text)
    /\ ck_pc' = "returned"
    /\ UNCHANGED <<ck_text, ck_max_chars, ck_look_back, ck_chunks, ck_start, ck_cuts,
                   reviewVars, dedupeVars, parseVars, runVars, embedVars, batchVars, storeVars, moreVars>>

NextChunk == ReturnWholeText \/ EnterChunkLoop \/ CutChunk \/ ReturnChunks

SpecChunk == InitChunk /\ [][NextChunk]_vars

----------------------------------------------------------------------------
(* EmbeddingService.generate_embedding                                     *)

\* _chunk_text as a function: the while loop from a given start
RECURSIVE ChunkLoop(_, _, _, _, _)
ChunkLoop(s, from, limit, window, cs) ==
    IF from >= Len(s) THEN cs
    ELSE LET end == ChunkEnd(s, from, limit, window)
         IN  ChunkLoop(s, end, limit, window,
                       AppendChunk(cs, Slice(s, from, end)))

ChunkTextWith(s, limit, window) ==
    IF Len(s) <= limit THEN <<s>> ELSE ChunkLoop(s, 0, limit, window, <<>>)

LookBack == 500

\* int(self.max_tokens * 0.8)
SafeTokens(limit) == (limit * 8) \div 10

\* max_chars of _chunk_text called without max_tokens
SafeChars(limit) == SafeTokens(limit) * CharsPerToken

\* self._chunk_text(text)
ChunkText(s, limit) == ChunkTextWith(s, SafeChars(limit), LookBack)

\* self.max_tokens, scaled to the texts explored here (the code's limits
\* are 7000 to 8192 tokens)
TokenLimits == {2}

\* response.data[0]["embedding"]: vectors of the model's dimension
EmbeddingVectors == { <<0, 2>>, <<4, 2>> }

AembeddingFails == [failed |-> TRUE, embedding |-> <<>>]

\* litellm.aembedding on one input: raises, or answers with a vector
AembeddingOutcomes ==
    {AembeddingFails} \cup
    {[failed |-> FALSE, embedding |-> v] : v \in EmbeddingVectors}

RECURSIVE SumAt(_, _)
SumAt(embs, dim) ==
    IF embs = <<>> THEN 0 ELSE Head(embs)[dim] + SumAt(Tail(embs), dim)

\* avg_embedding: sum(emb[dim] ...) / len(chunk_embeddings) for each dim of
\* the first embedding; the quotient is kept as the pair it is made of
AvgEmbedding(embs) ==
    [dim \in 1..Len(embs[1]) |-> [sum |-> SumAt(embs, dim), over |-> Len(embs)]]

InitEmbed ==
    /\ em_text \in BoundedSeq(TextChars, MaxTextLen)
    /\ em_max_tokens \in TokenLimits
    /\ em_chunks = <<>>
    /\ em_index = 0
    /\ em_inputs = <<>>
    /\ em_outcomes = <<>>
    /\ chunk_embeddings = <<>>
    /\ em_result = <<>>
    /\ em_pc = "entry"
    /\ IdleReview /\ IdleDedupe /\ IdleParse /\ IdleMore /\ IdleRun /\ IdleChunk /\ IdleBatch /\ IdleStore

\* len(chunks) == 1: one call with input=text; a failure is caught by the
\* outer except, which returns []
EmbedWholeText ==
    /\ em_pc = "entry"
    /\ Len(ChunkText(em_text, em_max_tokens)) = 1
    /\ em_chunks' = ChunkText(em_text, em_max_tokens)
    /\ \E outcome \in AembeddingOutcomes :
        /\ em_inputs' = Append(em_inputs, em_text)
        /\ em_outcomes' = Append(em_outcomes, outcome)
        /\ em_result' = IF outcome.failed THEN <<>> ELSE outcome.embedding
    /\ em_pc' = "returned"
    /\ UNCHANGED <<em_text, em_max_tokens, em_index, chunk_embeddings,
                   reviewVars, dedupeVars, parseVars, runVars, chunkVars, batchVars, storeVars, moreVars>>

\* len(chunks) != 1: enter the loop over the chunks
StartChunks ==
    /\ em_pc = "entry"
    /\ Len(ChunkText(em_text, em_max_tokens)) # 1
    /\ em_chunks' = ChunkText(em_text, em_max_tokens)
    /\ em_pc' = "chunks"
    /\ UNCHANGED <<em_text, em_max_tokens, em_index, em_inputs, em_outcomes,
                   chunk_embeddings, em_result,
                   reviewVars, dedupeVars, parseVars, runVars, chunkVars, batchVars, storeVars, moreVars>>

EmbedChunkSucceeds ==
    /\ em_pc = "chunks"
    /\ em_index < Len(em_chunks)
    /\ \E outcome \in AembeddingOutcomes \ {AembeddingFails} :
        /\ em_outcomes' = Append(em_outcomes, outcome)
        /\ chunk_embeddings' = Append(chunk_embeddings, outcome.embedding)
    /\ em_inputs' = Append(em_inputs, em_chunks[em_index + 1])
    /\ em_index' = em_index + 1
    /\ UNCHANGED <<em_text, em_max_tokens, em_chunks, em_result, em_pc,
                   reviewVars, dedupeVars, parseVars, runVars, chunkVars, batchVars, storeVars, moreVars>>

\* Mutant: a chunk's failure ends the call with the empty vector.
EmbedChunkFails_Aborts ==
    /\ em_pc = "chunks"
    /\ em_index < Len(em_chunks)
    /\ em_outcomes' = Append(em_outcomes, AembeddingFails)
    /\ em_inputs' = Append(em_inputs, em_chunks[em_index + 1])
    /\ em_index' = em_index + 1
    /\ em_result' = <<>>
    /\ em_pc' = "returned"
    /\ UNCHANGED <<em_text, em_max_tokens, em_chunks, chunk_embeddings,
                   reviewVars, dedupeVars, parseVars, runVars, chunkVars, batchVars, storeVars, moreVars>>

\* except Exception: continue
EmbedChunkFails ==
    /\ em_pc = "chunks"
    /\ em_index < Len(em_chunks)
    /\ em_outcomes' = Append(em_outcomes, AembeddingFails)
    /\ em_inputs' = Append(em_inputs, em_chunks[em_index + 1])
    /\ em_index' = em_index + 1
    /\ UNCHANGED <<em_text, em_max_tokens, em_chunks, chunk_embeddings,
                   em_result, em_pc,
                   reviewVars, dedupeVars, parseVars, runVars, chunkVars, batchVars, storeVars, moreVars>>

\* after the loop: [] or the average
ReturnAverage ==
    /\ em_pc = "chunks"
    /\ em_index = Len(em_chunks)
    /\ em_result' = IF chunk_embeddings = <<>> THEN <<>>
                    ELSE AvgEmbedding(chunk_embeddings)
    /\ em_pc' = "returned"
    /\ UNCHANGED <<em_text, em_max_tokens, em_chunks, em_index, em_inputs,
                   em_outcomes, chunk_embeddings,
                   reviewVars, dedupeVars, parseVars, runVars, chunkVars, batchVars, storeVars, moreVars>>

NextEmbed ==
    \/ EmbedWholeText
    \/ StartChunks
    \/ EmbedChunkSucceeds
    \/ EmbedChunkFails
    \/ ReturnAverage

SpecEmbed == InitEmbed /\ [][NextEmbed]_vars

----------------------------------------------------------------------------
(* EmbeddingService.generate_embeddings_batch                              *)
(*                                                                         *)
(* The function looks at the length of a text only, so a text is its       *)
(* length here and the numbers are the code's.                             *)

\* get_embedding_token_limits(): the values self.max_tokens can take
ModelTokenLimits == {8191, 8000, 8192, 7000}

BatchThreshold == 28000

\* lengths on both sides of every threshold involved
TextLengths ==
    {SafeChars(limit) : limit \in ModelTokenLimits} \cup
    {SafeChars(limit) + 1 : limit \in ModelTokenLimits} \cup
    {BatchThreshold, BatchThreshold + 1}

\* any(len(text) > 28000 for text in texts)
NeedsChunking(texts) == \E i \in DOMAIN texts : texts[i] > BatchThreshold

\* what generate_embedding returns for a text: a vector, or [] on failure
GenerateEmbeddingResults(length) ==
    {[text |-> length, embedding |-> e] : e \in {"vector", "empty"}}

InitBatch ==
    /\ bt_texts \in BoundedSeq(TextLengths, MaxBatch)
    /\ bt_max_tokens \in ModelTokenLimits
    /\ bt_batch_calls = <<>>
    /\ bt_single = <<>>
    /\ bt_embeddings = <<>>
    /\ bt_pc = "entry"
    /\ IdleReview /\ IdleDedupe /\ IdleParse /\ IdleMore /\ IdleRun /\ IdleChunk /\ IdleEmbed /\ IdleStore

\* not needs_chunking: one call with input=texts, which answers
BatchCallSucceeds ==
    /\ bt_pc = "entry"
    /\ ~NeedsChunking(bt_texts)
    /\ bt_batch_calls' = Append(bt_batch_calls, bt_texts)
    /\ bt_embeddings' =
           [i \in DOMAIN bt_texts |-> [text |-> bt_texts[i], embedding |-> "vector"]]
    /\ bt_pc' = "returned"
    /\ UNCHANGED <<bt_texts, bt_max_tokens, bt_single,
                   reviewVars, dedupeVars, parseVars, runVars, chunkVars, embedVars, storeVars, moreVars>>

\* not needs_chunking: the call raises; the except clause starts over with
\* individual processing
BatchCallFails ==
    /\ bt_pc = "entry"
    /\ ~NeedsChunking(bt_texts)
    /\ bt_batch_calls' = Append(bt_batch_calls, bt_texts)
    /\ bt_pc' = "fallback"
    /\ UNCHANGED <<bt_texts, bt_max_tokens, bt_single, bt_embeddings,
                   reviewVars, dedupeVars, parseVars, runVars, chunkVars, embedVars, storeVars, moreVars>>

\* needs_chunking: process individually
StartIndividually ==
    /\ bt_pc = "entry"
    /\ NeedsChunking(bt_texts)
    /\ bt_pc' = "individually"
    /\ UNCHANGED <<bt_texts, bt_max_tokens, bt_batch_calls, bt_single,
                   bt_embeddings,
                   reviewVars, dedupeVars, parseVars, runVars, chunkVars, embedVars, storeVars, moreVars>>

\* an iteration of either loop over the texts
EmbedNextText ==
    /\ bt_pc \in {"individually", "fallback"}
    /\ Len(bt_single) < Len(bt_texts)
    /\ LET next_text == bt_texts[Len(bt_single) + 1]
       IN  /\ bt_single' = Append(bt_single, next_text)
           /\ \E embedding \in GenerateEmbeddingResults(next_text) :
                  bt_embeddings' = Append(bt_embeddings, embedding)
    /\ UNCHANGED <<bt_texts, bt_max_tokens, bt_batch_calls, bt_pc,
                   reviewVars, dedupeVars, parseVars, runVars, chunkVars, embedVars, storeVars, moreVars>>

ReturnEmbeddings ==
    /\ bt_pc \in {"individually", "fallback"}
    /\ Len(bt_single) = Len(bt_texts)
    /\ bt_pc' = "returned"
    /\ UNCHANGED <<bt_texts, bt_max_tokens, bt_batch_calls, bt_single,
                   bt_embeddings,
                   reviewVars, dedupeVars, parseVars, runVars, chunkVars, embedVars, storeVars, moreVars>>

NextBatch ==
    \/ BatchCallSucceeds
    \/ BatchCallFails
    \/ StartIndividually
    \/ EmbedNextText
    \/ ReturnEmbeddings

SpecBatch == InitBatch /\ [][NextBatch]_vars

----------------------------------------------------------------------------
(* GraphDatabaseService.store_resume_graph                                 *)
(*                                                                         *)
(* A query is kept as the pattern it is formatted from.  The graph follows *)
(* Cypher: MERGE creates what its whole pattern (labels and every property *)
(* written in it) does not match, MATCH produces a row for every node that *)
(* has the label and the properties written, and a clause after a MATCH    *)
(* without rows does nothing.  Any query may also raise.  The names and    *)
(* types explored hold no quote or backtick, which the escaping rewrites.  *)

\* GraphTriplet, with all its fields; "Python" occurs with two types
StoreTriplets ==
    { [subject |-> "Ann", subject_type |-> "Person", predicate |-> "USES",
       object |-> "Python", object_type |-> "Skill",
       subject_description |-> "s", object_description |-> "o",
       relationship_description |-> "r"],
      [subject |-> "Ann", subject_type |-> "Person", predicate |-> "KNOWS",
       object |-> "Python", object_type |-> "Technology",
       subject_description |-> "s", object_description |-> "o",
       relationship_description |-> "r"],
      [subject |-> "Python", subject_type |-> "Skill", predicate |-> "USED_BY",
       object |-> "Ann", object_type |-> "Person",
       subject_description |-> "s", object_description |-> "o",
       relationship_description |-> "r"] }

\* entities after the first loop: a dict keyed by the entity's name, as
\* <<name, data>> in insertion order
RECURSIVE Entities(_, _, _)
Entities(ts, i, acc) ==
    IF i > Len(ts) THEN acc
    ELSE LET t == ts[i]
             with_subject ==
                 DictSet(acc, t.subject,
                         [type |-> t.subject_type,
                          description |-> t.subject_description,
                          embedding_idx |-> i])
             with_object ==
                 DictSet(with_subject, t.object,
                         [type |-> t.object_type,
                          description |-> t.object_description,
                          embedding_idx |-> i])
         IN  Entities(ts, i + 1, with_object)

\* embedding_json of an entity: the subject embedding of its index when the
\* embeddings are given (it is looked up first), "null" otherwise
EntityEmbedding(embeddings, idx) ==
    IF embeddings = "all" THEN <<"subject", idx>> ELSE <<"null">>

\* rel_embedding_json
RelationshipEmbedding(embeddings, idx) ==
    IF embeddings = "all" THEN <<"relationship", idx>> ELSE <<"null">>

\* MERGE (e:label {name, type, resume_id, description, embedding})
EntityQuery(entry, resume_id, embeddings) ==
    [kind |-> "merge_node",
     node |-> [label |-> entry[2].type,
               props |-> [name |-> entry[1],
                          type |-> entry[2].type,
                          resume_id |-> resume_id,
                          description |-> entry[2].description,
                          embedding |-> EntityEmbedding(embeddings,
                                                        entry[2].embedding_idx)]]]

\* MATCH (s:label {name, resume_id}) MATCH (o:label {name, resume_id})
\* MERGE (s)-[r:predicate {resume_id, description, embedding}]->(o)
RelationshipQuery(t, i, resume_id, embeddings) ==
    [kind |-> "merge_edge",
     subject_label |-> t.subject_type, subject |-> t.subject,
     object_label |-> t.object_type, object |-> t.object,
     resume_id |-> resume_id,
     type |-> t.predicate,
     props |-> [resume_id |-> resume_id,
                description |-> t.relationship_description,
                embedding |-> RelationshipEmbedding(embeddings, i)]]

\* MERGE (r:Resume {id, entity_count, triplet_count, ...})
MetadataQuery(ts, resume_id) ==
    [kind |-> "merge_node",
     node |-> [label |-> "Resume",
               props |-> [id |-> resume_id,
                          entity_count |-> Len(Entities(ts, 1, <<>>)),
                          triplet_count |-> Len(ts),
                          validation_status |-> "true",
                          validation_message |-> "m"]]]

\* every query of one call, in the order the call executes them
StoreQueries(ts, resume_id, embeddings) ==
    LET entities == Entities(ts, 1, <<>>)
    IN  [k \in DOMAIN entities |-> EntityQuery(entities[k], resume_id, embeddings)]
        \o [i \in DOMAIN ts |-> RelationshipQuery(ts[i], i, resume_id, embeddings)]
        \o << MetadataQuery(ts, resume_id) >>

\* Mutant: the node is created whether or not the pattern matches.
MergeNode_Creates(nodes, node) == Append(nodes, node)

\* MERGE of a node pattern
MergeNode(nodes, node) ==
    IF \E n \in DOMAIN nodes : nodes[n] = node THEN nodes ELSE Append(nodes, node)

\* the rows of MATCH (x:label {name, resume_id})
MatchNodes(nodes, label, name, resume_id) ==
    {n \in DOMAIN nodes :
        /\ nodes[n].label = label
        /\ nodes[n].props.name = name
        /\ nodes[n].props.resume_id = resume_id}

\* MERGE (s)-[r]->(o) for one row
MergeEdge(edges, edge) ==
    IF \E e \in DOMAIN edges : edges[e] = edge THEN edges ELSE Append(edges, edge)

RECURSIVE MergeEdgeRows(_, _, _)
MergeEdgeRows(edges, rows, q) ==
    IF rows = {} THEN edges
    ELSE LET row == CHOOSE r \in rows : \A other \in rows :
                        \/ r[1] < other[1]
                        \/ r[1] = other[1] /\ r[2] <= other[2]
         IN  MergeEdgeRows(
                 MergeEdge(edges, [from |-> row[1], to |-> row[2],
                                   type |-> q.type, props |-> q.props]),
                 rows \ {row}, q)

\* the rows the two MATCH clauses of a relationship query produce
RelationshipRows(nodes, q) ==
    MatchNodes(nodes, q.subject_label, q.subject, q.resume_id)
        \X MatchNodes(nodes, q.object_label, q.object, q.resume_id)

\* Mutant: the whole path is merged, so missing endpoints are created.
ExecuteQuery_MergesPath(graph, q) ==
    IF q.kind = "merge_node"
    THEN [nodes |-> MergeNode(graph.nodes, q.node), edges |-> graph.edges]
    ELSE LET s == [label |-> q.subject_label,
                   props |-> [name |-> q.subject, resume_id |-> q.resume_id]]
             o == [label |-> q.object_label,
                   props |-> [name |-> q.object, resume_id |-> q.resume_id]]
             with_s == IF MatchNodes(graph.nodes, q.subject_label, q.subject,
                                     q.resume_id) = {}
                       THEN Append(graph.nodes, s) ELSE graph.nodes
             with_o == IF MatchNodes(with_s, q.object_label, q.object,
                                     q.resume_id) = {}
                       THEN Append(with_s, o) ELSE with_s
         IN  [nodes |-> with_o,
              edges |-> MergeEdgeRows(graph.edges,
                                      RelationshipRows(with_o, q), q)]

\* await self.graph.query(query), when it does not raise
ExecuteQuery(graph, q) ==
    IF q.kind = "merge_node"
    THEN [nodes |-> MergeNode(graph.nodes, q.node), edges |-> graph.edges]
    ELSE [nodes |-> graph.nodes,
          edges |-> MergeEdgeRows(graph.edges,
                                  RelationshipRows(graph.nodes, q), q)]

InitStore ==
    /\ st_triplets \in BoundedSeq(StoreTriplets, MaxStored)
    /\ st_resume_id = "r1"
    /\ st_embeddings \in {"none", "all"}
    /\ graph_nodes = <<>>
    /\ graph_edges = <<>>
    /\ st_queue = <<>>
    /\ st_results = <<>>
    /\ st_pc = "idle"
    /\ IdleReview /\ IdleDedupe /\ IdleParse /\ IdleMore
    /\ IdleRun /\ IdleChunk /\ IdleEmbed /\ IdleBatch

\* store_resume_graph is called (again) with the same arguments
CallStore ==
    /\ st_pc = "idle"
    /\ Len(st_results) < MaxRuns
    /\ st_queue' = StoreQueries(st_triplets, st_resume_id, st_embeddings)
    /\ st_pc' = "running"
    /\ UNCHANGED <<st_triplets, st_resume_id, st_embeddings, graph_nodes,
                   graph_edges, st_results,
                   reviewVars, dedupeVars, parseVars, runVars, chunkVars,
                   embedVars, batchVars, moreVars>>

\* the next query is executed
QuerySucceeds ==
    /\ st_pc = "running"
    /\ st_queue # <<>>
    /\ LET graph == ExecuteQuery([nodes |-> graph_nodes, edges |-> graph_edges],
                                 Head(st_queue))
       IN  /\ graph_nodes' = graph.nodes
           /\ graph_edges' = graph.edges
    /\ st_queue' = Tail(st_queue)
    /\ UNCHANGED <<st_triplets, st_resume_id, st_embeddings, st_results, st_pc,
                   reviewVars, dedupeVars, parseVars, runVars, chunkVars,
                   embedVars, batchVars, moreVars>>

\* the next query raises: except Exception: return False
QueryFails ==
    /\ st_pc = "running"
    /\ st_queue # <<>>
    /\ st_queue' = <<>>
    /\ st_results' = Append(st_results, FALSE)
    /\ st_pc' = "idle"
    /\ UNCHANGED <<st_triplets, st_resume_id, st_embeddings, graph_nodes,
                   graph_edges,
                   reviewVars, dedupeVars, parseVars, runVars, chunkVars,
                   embedVars, batchVars, moreVars>>

\* every query was executed: return True
ReturnTrue ==
    /\ st_pc = "running"
    /\ st_queue = <<>>
    /\ st_results' = Append(st_results, TRUE)
    /\ st_pc' = "idle"
    /\ UNCHANGED <<st_triplets, st_resume_id, st_embeddings, graph_nodes,
                   graph_edges, st_queue,
                   reviewVars, dedupeVars, parseVars, runVars, chunkVars,
                   embedVars, batchVars, moreVars>>

NextStore == CallStore \/ QuerySucceeds \/ QueryFails \/ ReturnTrue

SpecStore == InitStore /\ [][NextStore]_vars

----------------------------------------------------------------------------
(* store_resume_graph and delete_resume_graph called for several resumes   *)
(*                                                                         *)
(* One graph is shared by every resume.  A call is one step here: a store  *)
(* that raises at its k-th query leaves what the queries before it wrote,  *)
(* a delete runs two queries and either of them may raise.                 *)

MaxScopeOps == 3

ResumeIds == {"r1", "r2"}

\* the triplet lists handed to store_resume_graph
ScopeTriplets ==
    LET uses == CHOOSE t \in StoreTriplets : t.predicate = "USES"
        knows == CHOOSE t \in StoreTriplets : t.predicate = "KNOWS"
    IN  { <<uses>>, <<uses, knows>> }

\* the graph after the first k queries of a call
RECURSIVE ExecuteFirst(_, _, _)
ExecuteFirst(graph, queries, k) ==
    IF k = 0 \/ queries = <<>> THEN graph
    ELSE ExecuteFirst(ExecuteQuery(graph, Head(queries)), Tail(queries), k - 1)

\* the graph without the nodes doomed and without the edges that touch them
RemoveNodes(graph, doomed) ==
    LET kept(n) == Cardinality({m \in 1..n : m \notin doomed})
        left == {e \in DOMAIN graph.edges :
                    /\ graph.edges[e].from \notin doomed
                    /\ graph.edges[e].to \notin doomed}
        OnlyKept(e) == e.from \notin doomed /\ e.to \notin doomed
        moved == SelectSeq(graph.edges, OnlyKept)
        kept_nodes == [n \in DOMAIN graph.nodes |->
                          [node |-> graph.nodes[n], doomed |-> n \in doomed]]
        NotDoomed(x) == ~x.doomed
        survivors == SelectSeq(kept_nodes, NotDoomed)
    IN  [nodes |-> [n \in DOMAIN survivors |-> survivors[n].node],
         edges |-> [e \in DOMAIN moved |->
                       [from |-> kept(moved[e].from), to |-> kept(moved[e].to),
                        type |-> moved[e].type, props |-> moved[e].props]]]

\* the rows of MATCH (n {resume_id: resume_id})
ResumeNodes(nodes, resume_id) ==
    {n \in DOMAIN nodes :
        /\ "resume_id" \in DOMAIN nodes[n].props
        /\ nodes[n].props.resume_id = resume_id}

\* the rows of MATCH (r:Resume {id: resume_id})
MetadataNodes(nodes, resume_id) ==
    {n \in DOMAIN nodes :
        /\ nodes[n].label = "Resume"
        /\ "id" \in DOMAIN nodes[n].props
        /\ nodes[n].props.id = resume_id}

\* MATCH (n {resume_id: resume_id}) DETACH DELETE n
DetachDeleteQuery(graph, resume_id) ==
    RemoveNodes(graph, ResumeNodes(graph.nodes, resume_id))

\* Mutant: the metadata of every resume is deleted.
DeleteMetadataQuery_Every(graph, resume_id) ==
    RemoveNodes(graph, {n \in DOMAIN graph.nodes : graph.nodes[n].label = "Resume"})

\* MATCH (r:Resume {id: resume_id}) DELETE r
DeleteMetadataQuery(graph, resume_id) ==
    RemoveNodes(graph, MetadataNodes(graph.nodes, resume_id))

\* get_resume_entities: MATCH (e {resume_id: resume_id}) RETURN e
GetResumeEntities(graph, resume_id) ==
    LET Mine(node) == /\ "resume_id" \in DOMAIN node.props
                      /\ node.props.resume_id = resume_id
        rows == SelectSeq(graph.nodes, Mine)
    IN  [k \in DOMAIN rows |->
            [name |-> rows[k].props.name, type |-> rows[k].props.type,
             labels |-> <<rows[k].label>>]]

\* get_resume_relationships:
\* MATCH (s)-[r {resume_id: resume_id}]->(o)
\* RETURN s.name, type(r), o.name, labels(s), labels(o)
GetResumeRelationships(graph, resume_id) ==
    LET Mine(edge) == edge.props.resume_id = resume_id
        rows == SelectSeq(graph.edges, Mine)
    IN  [k \in DOMAIN rows |->
            [subject |-> graph.nodes[rows[k].from].props.name,
             predicate |-> rows[k].type,
             object |-> graph.nodes[rows[k].to].props.name,
             subject_labels |-> <<graph.nodes[rows[k].from].label>>,
             object_labels |-> <<graph.nodes[rows[k].to].label>>]]

ScopeGraph == [nodes |-> sc_nodes, edges |-> sc_edges]

InitScopes ==
    /\ IdleScopes /\ IdleQuery /\ IdleCosine /\ IdleSearch /\ IdleIngest /\ IdleProvider
    /\ IdleReview /\ IdleDedupe /\ IdleParse
    /\ IdleRun /\ IdleChunk /\ IdleEmbed /\ IdleBatch /\ IdleStore

\* store_resume_graph(resume_id, ...): every query is executed, return True
StoreSucceeds ==
    /\ Len(sc_calls) < MaxScopeOps
    /\ \E resume_id \in ResumeIds, ts \in ScopeTriplets :
          LET queries == StoreQueries(ts, resume_id, "all")
              graph == ExecuteFirst(ScopeGraph, queries, Len(queries))
          IN  /\ sc_nodes' = graph.nodes
              /\ sc_edges' = graph.edges
              /\ sc_calls' = Append(sc_calls, [op |-> "store", resume_id |-> resume_id, ok |-> TRUE])
    /\ UNCHANGED <<coreVars, queryVars, cosineVars, searchVars, ingestVars, providerVars>>

\* store_resume_graph(resume_id, ...): a query raises, return False
StoreFails ==
    /\ Len(sc_calls) < MaxScopeOps
    /\ \E resume_id \in ResumeIds, ts \in ScopeTriplets :
          LET queries == StoreQueries(ts, resume_id, "all")
          IN  \E k \in 0..(Len(queries) - 1) :
                 LET graph == ExecuteFirst(ScopeGraph, queries, k)
                 IN  /\ sc_nodes' = graph.nodes
                     /\ sc_edges' = graph.edges
                     /\ sc_calls' = Append(sc_calls, [op |-> "store", resume_id |-> resume_id, ok |-> FALSE])
    /\ UNCHANGED <<coreVars, queryVars, cosineVars, searchVars, ingestVars, providerVars>>

\* delete_resume_graph(resume_id): both queries are executed, return True
DeleteSucceeds ==
    /\ Len(sc_calls) < MaxScopeOps
    /\ \E resume_id \in ResumeIds :
          LET graph == DeleteMetadataQuery(
                           DetachDeleteQuery(ScopeGraph, resume_id), resume_id)
          IN  /\ sc_nodes' = graph.nodes
              /\ sc_edges' = graph.edges
              /\ sc_calls' = Append(sc_calls, [op |-> "delete", resume_id |-> resume_id, ok |-> TRUE])
    /\ UNCHANGED <<coreVars, queryVars, cosineVars, searchVars, ingestVars, providerVars>>

\* delete_resume_graph(resume_id): the first or the second query raises,
\* return False
DeleteFails ==
    /\ Len(sc_calls) < MaxScopeOps
    /\ \E resume_id \in ResumeIds, first \in BOOLEAN :
          LET graph == IF first THEN ScopeGraph
                       ELSE DetachDeleteQuery(ScopeGraph, resume_id)
          IN  /\ sc_nodes' = graph.nodes
              /\ sc_edges' = graph.edges
              /\ sc_calls' = Append(sc_calls, [op |-> "delete", resume_id |-> resume_id, ok |-> FALSE])
    /\ UNCHANGED <<coreVars, queryVars, cosineVars, searchVars, ingestVars, providerVars>>

NextScopes == StoreSucceeds \/ StoreFails \/ DeleteSucceeds \/ DeleteFails

SpecScopes == InitScopes /\ [][NextScopes]_vars

----------------------------------------------------------------------------
(* The text of the Cypher queries                                          *)
(*                                                                         *)
(* A string is a sequence of characters.  Each step formats one value into *)
(* the place of a query where the code puts it: a label, a relationship    *)
(* type, or a quoted literal.                                              *)

MaxValueLen == 2

\* the backtick, which a string of this module cannot hold
Backtick == "BACKTICK"

\* a letter, and the characters Cypher gives a meaning to
QueryChars == {"a", " ", Backtick, "'", "\"", "\\"}

\* str.replace(old, new) for a one-character old
RECURSIVE Replace(_, _, _)
Replace(s, old, new) ==
    IF s = <<>> THEN <<>>
    ELSE (IF Head(s) = old THEN new ELSE <<Head(s)>>)
         \o Replace(Tail(s), old, new)

\* x.replace("'", "\\'").replace('"', '\\"')
EscapeQuotes(s) == Replace(Replace(s, "'", <<"\\", "'">>), "\"", <<"\\", "\"">>)

\* f"`{x.replace('`', '``')}`"
SafeLabel(s) ==
    <<Backtick>> \o Replace(s, Backtick, <<Backtick, Backtick>>) \o <<Backtick>>

\* '{safe_name}': the escaped value between single quotes
QuotedLiteral(s) == <<"'">> \o EscapeQuotes(s) \o <<"'">>

\* [r:{safe_predicate} ...]: the escaped predicate, not quoted
SafePredicate(s) == EscapeQuotes(s)

\* [r:{relationship_type}]: the argument as it is
RelationshipType(s) == s

InitQuery ==
    /\ qy_value \in BoundedSeq(QueryChars, MaxValueLen)
    /\ qy_built = <<>>
    /\ IdleScopes /\ IdleCosine /\ IdleSearch /\ IdleIngest /\ IdleProvider
    /\ IdleReview /\ IdleDedupe /\ IdleParse
    /\ IdleRun /\ IdleChunk /\ IdleEmbed /\ IdleBatch /\ IdleStore

Built(slot) == \E k \in DOMAIN qy_built : qy_built[k].slot = slot

\* an entity type becomes a label (store_resume_graph, find_similar_entities)
FormatLabel ==
    /\ ~Built("label")
    /\ qy_built' = Append(qy_built, [slot |-> "label", text |-> SafeLabel(qy_value)])
    /\ UNCHANGED <<qy_value, coreVars, scopeVars, cosineVars, searchVars, ingestVars, providerVars>>

\* a name, type, description or message becomes a quoted literal
FormatLiteral ==
    /\ ~Built("literal")
    /\ qy_built' = Append(qy_built,
                          [slot |-> "literal", text |-> QuotedLiteral(qy_value)])
    /\ UNCHANGED <<qy_value, coreVars, scopeVars, cosineVars, searchVars, ingestVars, providerVars>>

\* a predicate becomes the relationship type of a MERGE
FormatPredicate ==
    /\ ~Built("predicate")
    /\ qy_built' = Append(qy_built,
                          [slot |-> "predicate", text |-> SafePredicate(qy_value)])
    /\ UNCHANGED <<qy_value, coreVars, scopeVars, cosineVars, searchVars, ingestVars, providerVars>>

\* relationship_type becomes the relationship type of a MATCH
FormatRelationshipType ==
    /\ ~Built("relationship_type")
    /\ qy_built' = Append(qy_built, [slot |-> "relationship_type",
                                     text |-> RelationshipType(qy_value)])
    /\ UNCHANGED <<qy_value, coreVars, scopeVars, cosineVars, searchVars, ingestVars, providerVars>>

NextQuery ==
    FormatLabel \/ FormatLiteral \/ FormatPredicate \/ FormatRelationshipType

SpecQuery == InitQuery /\ [][NextQuery]_vars

----------------------------------------------------------------------------
(* GraphDatabaseService._cosine_similarity and                             *)
(* EmbeddingService._cosine_similarity                                     *)
(*                                                                         *)
(* A similarity is kept as the exact quotient dot / sqrt(square1 *         *)
(* square2) of integers, so that it is 0 exactly when dot is 0.            *)

MaxDim == 2

Components == {-1, 0, 1}

\* sum(a * b for a, b in zip(vec1, vec2)): zip stops at the shorter vector
RECURSIVE DotProduct(_, _)
DotProduct(vec1, vec2) ==
    IF vec1 = <<>> \/ vec2 = <<>> THEN 0
    ELSE Head(vec1) * Head(vec2) + DotProduct(Tail(vec1), Tail(vec2))

\* sum(a * a for a in vec): the square of the magnitude
SquareSum(vec) == DotProduct(vec, vec)

\* EmbeddingService._cosine_similarity
EmbeddingCosineSimilarity(vec1, vec2) ==
    IF SquareSum(vec1) = 0 \/ SquareSum(vec2) = 0 THEN ZeroSimilarity
    ELSE [dot |-> DotProduct(vec1, vec2), square1 |-> SquareSum(vec1),
          square2 |-> SquareSum(vec2)]

\* GraphDatabaseService._cosine_similarity
GraphCosineSimilarity(vec1, vec2) ==
    IF vec1 = <<>> \/ vec2 = <<>> \/ Len(vec1) # Len(vec2) THEN ZeroSimilarity
    ELSE IF SquareSum(vec1) = 0 \/ SquareSum(vec2) = 0 THEN ZeroSimilarity
    ELSE [dot |-> DotProduct(vec1, vec2), square1 |-> SquareSum(vec1),
          square2 |-> SquareSum(vec2)]

InitCosine ==
    /\ cs_vec1 \in BoundedSeq(Components, MaxDim)
    /\ cs_vec2 \in BoundedSeq(Components, MaxDim)
    /\ cs_graph = NotCalled
    /\ cs_embedding = NotCalled
    /\ IdleScopes /\ IdleQuery /\ IdleSearch /\ IdleIngest /\ IdleProvider
    /\ IdleReview /\ IdleDedupe /\ IdleParse
    /\ IdleRun /\ IdleChunk /\ IdleEmbed /\ IdleBatch /\ IdleStore

\* GraphDatabaseService._cosine_similarity(vec1, vec2) is called
CallGraphCosine ==
    /\ ~cs_graph.called
    /\ cs_graph' = [called |-> TRUE, value |-> GraphCosineSimilarity(cs_vec1, cs_vec2)]
    /\ UNCHANGED <<cs_vec1, cs_vec2, cs_embedding, coreVars, scopeVars, queryVars, searchVars, ingestVars, providerVars>>

\* EmbeddingService._cosine_similarity(vec1, vec2) is called
CallEmbeddingCosine ==
    /\ ~cs_embedding.called
    /\ cs_embedding' = [called |-> TRUE,
                        value |-> EmbeddingCosineSimilarity(cs_vec1, cs_vec2)]
    /\ UNCHANGED <<cs_vec1, cs_vec2, cs_graph, coreVars, scopeVars, queryVars, searchVars, ingestVars, providerVars>>

NextCosine == CallGraphCosine \/ CallEmbeddingCosine

SpecCosine == InitCosine /\ [][NextCosine]_vars

----------------------------------------------------------------------------
(* GraphDatabaseService.search_resume_by_query and                         *)
(* search_all_resumes_by_query                                             *)
(*                                                                         *)
(* The graph is given by the triplets MATCH (s)-[r]->(o) binds, each with  *)
(* the resume_id of its subject and the three embeddings stored for it; an *)
(* embedding that was stored as null is the empty vector, which is what    *)
(* the code turns it into.                                                 *)

MaxRows == 2
MaxLimit == 2

\* the embeddings store_resume_graph may have written for one triplet
StoredEmbeddings ==
    { [subject |-> <<>>, object |-> <<>>, relationship |-> <<>>],
      [subject |-> <<-1, 0>>, object |-> <<-1, 0>>, relationship |-> <<-1, -1>>],
      [subject |-> <<1, 0>>, object |-> <<>>, relationship |-> <<>>],
      [subject |-> <<>>, object |-> <<1, 1>>, relationship |-> <<-1, 0>>],
      [subject |-> <<0, 1>>, object |-> <<>>, relationship |-> <<>>],
      [subject |-> <<1>>, object |-> <<>>, relationship |-> <<1, 1>>] }

StoredRows ==
    { [resume_id |-> id, subject |-> "Ann", predicate |-> "USES",
       object |-> "Python", subject_embedding |-> e.subject,
       object_embedding |-> e.object, relationship_embedding |-> e.relationship] :
      id \in ResumeIds, e \in StoredEmbeddings }

\* query_embedding: a vector, or empty when generate_embedding failed
QueryEmbeddings == { <<1, 0>>, <<>> }

\* a <= b for two similarities: dot / sqrt(square1 * square2) is compared by
\* its signed square
SimilarityLeq(a, b) ==
    LET Signed(x) == IF x.dot < 0 THEN 0 - x.dot * x.dot ELSE x.dot * x.dot
    IN  Signed(a) * (b.square1 * b.square2) <= Signed(b) * (a.square1 * a.square2)

\* self._cosine_similarity(query_embedding, emb) if emb else 0
EmbeddingSimilarity(query_embedding, emb) ==
    IF emb = <<>> THEN ZeroSimilarity
    ELSE GraphCosineSimilarity(query_embedding, emb)

\* max(subject_sim, object_sim, rel_sim)
MaxSimilarity(query_embedding, row) ==
    LET subject_sim == EmbeddingSimilarity(query_embedding, row.subject_embedding)
        object_sim == EmbeddingSimilarity(query_embedding, row.object_embedding)
        rel_sim == EmbeddingSimilarity(query_embedding, row.relationship_embedding)
        first == IF SimilarityLeq(object_sim, subject_sim)
                 THEN subject_sim ELSE object_sim
    IN  IF SimilarityLeq(rel_sim, first) THEN first ELSE rel_sim

\* WHERE (s.embedding IS NOT NULL OR r.embedding IS NOT NULL
\*        OR o.embedding IS NOT NULL)
HasEmbedding(row) ==
    \/ row.subject_embedding # <<>>
    \/ row.relationship_embedding # <<>>
    \/ row.object_embedding # <<>>

\* result.result_set: the positions in sr_rows of the triplets the query
\* matches (every resume when resume_id is "*")
RECURSIVE ResultSet(_, _, _)
ResultSet(rows, resume_id, k) ==
    IF k > Len(rows) THEN <<>>
    ELSE (IF /\ HasEmbedding(rows[k])
             /\ resume_id \in {"*", rows[k].resume_id}
          THEN <<k>> ELSE <<>>)
         \o ResultSet(rows, resume_id, k + 1)

\* scored_results before the sort; row is the position of the triplet
ScoredResults(rows, matched, query_embedding) ==
    [k \in DOMAIN matched |->
        [row |-> matched[k],
         resume_id |-> rows[matched[k]].resume_id,
         subject |-> rows[matched[k]].subject,
         predicate |-> rows[matched[k]].predicate,
         object |-> rows[matched[k]].object,
         similarity_score |-> MaxSimilarity(query_embedding, rows[matched[k]])]]

\* one result put into a list sorted by descending score, behind its equals
RECURSIVE InsertByScore(_, _)
InsertByScore(sorted, result) ==
    IF sorted = <<>> THEN <<result>>
    ELSE IF SimilarityLeq(result.similarity_score, Head(sorted).similarity_score)
         THEN <<Head(sorted)>> \o InsertByScore(Tail(sorted), result)
    ELSE <<result>> \o sorted

\* Mutant: ascending order.
SortByScore_Ascending(results) ==
    IF results = <<>> THEN <<>>
    ELSE [k \in DOMAIN results |-> results[Len(results) + 1 - k]]

\* scored_results.sort(key=..., reverse=True): stable, descending
RECURSIVE SortByScore(_)
SortByScore(results) ==
    IF results = <<>> THEN <<>>
    ELSE InsertByScore(SortByScore(SubSeq(results, 1, Len(results) - 1)),
                       results[Len(results)])

\* what a search returns when nothing raises
SearchByQuery(rows, resume_id, query_embedding, limit) ==
    IF query_embedding = <<>> THEN <<>>
    ELSE LET sorted == SortByScore(ScoredResults(rows,
                                       ResultSet(rows, resume_id, 1),
                                       query_embedding))
         IN  SubSeq(sorted, 1, IF limit < Len(sorted) THEN limit ELSE Len(sorted))

InitSearch ==
    /\ sr_rows \in BoundedSeq(StoredRows, MaxRows)
    /\ sr_query \in QueryEmbeddings
    /\ sr_limit \in 0..MaxLimit
    /\ sr_resume_id \in ResumeIds
    /\ sr_results = NotSearched
    /\ IdleScopes /\ IdleQuery /\ IdleCosine /\ IdleIngest /\ IdleProvider
    /\ IdleReview /\ IdleDedupe /\ IdleParse
    /\ IdleRun /\ IdleChunk /\ IdleEmbed /\ IdleBatch /\ IdleStore

\* search_resume_by_query(resume_id, query, limit) returns its results
SearchResume ==
    /\ sr_results.by = "none"
    /\ sr_results' = [by |-> "resume",
                      results |-> SearchByQuery(sr_rows, sr_resume_id, sr_query,
                                                sr_limit)]
    /\ UNCHANGED <<sr_rows, sr_query, sr_limit, sr_resume_id, coreVars, scopeVars,
                   queryVars, cosineVars, ingestVars, providerVars>>

\* search_all_resumes_by_query(query, limit) returns its results
SearchAllResumes ==
    /\ sr_results.by = "none"
    /\ sr_results' = [by |-> "all",
                      results |-> SearchByQuery(sr_rows, "*", sr_query, sr_limit)]
    /\ UNCHANGED <<sr_rows, sr_query, sr_limit, sr_resume_id, coreVars, scopeVars,
                   queryVars, cosineVars, ingestVars, providerVars>>

\* either search, when the embedding call or the query raises: return []
SearchRaises ==
    /\ sr_results.by = "none"
    /\ \E by \in {"resume", "all"} : sr_results' = [by |-> by, results |-> <<>>]
    /\ UNCHANGED <<sr_rows, sr_query, sr_limit, sr_resume_id, coreVars, scopeVars,
                   queryVars, cosineVars, ingestVars, providerVars>>

NextSearch == SearchResume \/ SearchAllResumes \/ SearchRaises

SpecSearch == InitSearch /\ [][NextSearch]_vars

----------------------------------------------------------------------------
(* complete_resume_ingestion_workflow                                      *)
(*                                                                         *)
(* What the file, the two workflows and the graph database will do is      *)
(* drawn when the attempt starts; each step is one of the awaited calls.   *)

\* positional parameters of store_resume_graph after self, and positional
\* arguments store_resume_in_graph_db calls it with
StoreResumeGraphParameters == 5
StoreResumeGraphArguments == 6

ValidationMessages == {"m1", "m2"}

WorkflowResponses ==
    [validation_status : BOOLEAN, validation_message : ValidationMessages]

\* Mutant: an invalid document is formatted all the same.
CleaningRaises_Never(response) == FALSE

\* process_resume_content: if not response.validation_status: raise
CleaningRaises(response) == ~response.validation_status

\* extract_resume_graph: if not response.validation_status: raise
ExtractionRaises(response) == ~response.validation_status

\* the call of store_resume_graph binds its arguments (TypeError otherwise)
StoreCallBinds == StoreResumeGraphArguments <= StoreResumeGraphParameters

\* the except clause of the workflow: success False and str(e)
Failure(error) == [success |-> FALSE, error |-> error]

\* the dict returned after the four steps
Success(storage_success) ==
    [success |-> TRUE, graph_stored |-> storage_success,
     validation_status |-> ig_extraction.validation_status,
     validation_message |-> ig_extraction.validation_message]

InitIngest ==
    /\ ig_read \in {"ok", "unreadable", "missing"}
    /\ ig_cleaning \in WorkflowResponses
    /\ ig_extraction \in WorkflowResponses
    /\ ig_backend \in {"down", "up", "failing"}
    /\ ig_graph_ops = <<>>
    /\ ig_result = NoResult
    /\ ig_pc = "read"
    /\ IdleScopes /\ IdleQuery /\ IdleCosine /\ IdleSearch /\ IdleProvider
    /\ IdleReview /\ IdleDedupe /\ IdleParse
    /\ IdleRun /\ IdleChunk /\ IdleEmbed /\ IdleBatch /\ IdleStore

\* Step 1: read_resume.  When the file is missing, generate_resume_id raises
\* again inside the except clause.
ReadResume ==
    /\ ig_pc = "read"
    /\ CASE ig_read = "ok" -> ig_pc' = "clean" /\ UNCHANGED ig_result
         [] ig_read = "unreadable" ->
                ig_pc' = "returned" /\ ig_result' = Failure(<<"unreadable">>)
         [] OTHER -> ig_pc' = "raised" /\ UNCHANGED ig_result
    /\ UNCHANGED <<ig_read, ig_cleaning, ig_extraction, ig_backend, ig_graph_ops,
                   coreVars, scopeVars, queryVars, cosineVars, searchVars, providerVars>>

\* Step 2: process_resume_content
ProcessResumeContent ==
    /\ ig_pc = "clean"
    /\ IF CleaningRaises(ig_cleaning)
       THEN /\ ig_pc' = "returned"
            /\ ig_result' = Failure(<<ig_cleaning.validation_message>>)
       ELSE ig_pc' = "extract" /\ UNCHANGED ig_result
    /\ UNCHANGED <<ig_read, ig_cleaning, ig_extraction, ig_backend, ig_graph_ops,
                   coreVars, scopeVars, queryVars, cosineVars, searchVars, providerVars>>

\* Step 3: extract_resume_graph (a failure to embed is swallowed)
ExtractResumeGraph ==
    /\ ig_pc = "extract"
    /\ IF ExtractionRaises(ig_extraction)
       THEN /\ ig_pc' = "returned"
            /\ ig_result' = Failure(<<"Graph extraction failed: ",
                                      ig_extraction.validation_message>>)
       ELSE ig_pc' = "store" /\ UNCHANGED ig_result
    /\ UNCHANGED <<ig_read, ig_cleaning, ig_extraction, ig_backend, ig_graph_ops,
                   coreVars, scopeVars, queryVars, cosineVars, searchVars, providerVars>>

\* Step 4: store_resume_in_graph_db, and the return of the workflow
StoreResumeInGraphDb ==
    /\ ig_pc = "store"
    /\ ig_pc' = "returned"
    /\ IF ig_backend = "down"
       THEN /\ ig_graph_ops' = <<"connect">>
            /\ ig_result' = Success(FALSE)
       ELSE IF ~StoreCallBinds
       THEN /\ ig_graph_ops' = <<"connect", "create_indexes", "disconnect">>
            /\ ig_result' = Failure(<<"TypeError">>)
       ELSE /\ ig_graph_ops' = <<"connect", "create_indexes",
                                 "store_resume_graph", "disconnect">>
            /\ ig_result' = Success(ig_backend = "up")
    /\ UNCHANGED <<ig_read, ig_cleaning, ig_extraction, ig_backend,
                   coreVars, scopeVars, queryVars, cosineVars, searchVars, providerVars>>

NextIngest ==
    ReadResume \/ ProcessResumeContent \/ ExtractResumeGraph \/ StoreResumeInGraphDb

SpecIngest == InitIngest /\ [][NextIngest]_vars

----------------------------------------------------------------------------
(* EmbeddingService._chunk_text, for every max_tokens a caller can pass    *)
(*                                                                         *)
(* The loop is followed for one iteration more than the text has           *)
(* characters.                                                             *)

MaxCutText == 5

\* the characters of SpecChunk and a second sentence mark
CutChars == TextChars \cup {"!"}

InitChunkAny ==
    /\ ck_text \in BoundedSeq(CutChars, MaxCutText)
    /\ \E max_tokens \in 0..MaxChunkTokens : ck_max_chars = max_tokens * CharsPerToken
    /\ ck_look_back \in LookBackWindows
    /\ ck_chunks = <<>>
    /\ ck_start = 0
    /\ ck_cuts = <<>>
    /\ ck_pc = "entry"
    /\ IdleReview /\ IdleDedupe /\ IdleParse /\ IdleMore
    /\ IdleRun /\ IdleEmbed /\ IdleBatch /\ IdleStore

\* an iteration of the while loop, among the first len(text) + 1
CutChunkCounted ==
    /\ Len(ck_cuts) <= Len(ck_text)
    /\ CutChunk

NextChunkAny ==
    ReturnWholeText \/ EnterChunkLoop \/ CutChunkCounted \/ ReturnChunks

SpecChunkAny == InitChunkAny /\ [][NextChunkAny]_vars

----------------------------------------------------------------------------
(* ProviderStateService                                                    *)
(*                                                                         *)
(* The providers table is a sequence of rows.  Each method runs in one     *)
(* "with sqlite3.connect(...)" block, which commits what it executed when  *)
(* the block is left without an exception.                                 *)

MaxProviderOps == 3

\* ProviderConfig, reduced to its name and one of the fields saved with it
ProviderConfigs == [name : {"p1", "p2"}, model : {"m1", "m2"}]

\* UPDATE providers SET is_active = FALSE
UnsetActive(rows) == [k \in DOMAIN rows |-> [rows[k] EXCEPT !.is_active = FALSE]]

\* UPDATE providers SET is_default = FALSE
UnsetDefault(rows) == [k \in DOMAIN rows |-> [rows[k] EXCEPT !.is_default = FALSE]]

\* the positions of the rows WHERE id = provider_id
RowsWithId(rows, provider_id) == {k \in DOMAIN rows : rows[k].id = provider_id}

\* the table after save_provider(config, is_active, is_default)
SaveProvider(rows, next_id, config, is_active, is_default) ==
    LET cleared == IF is_active
                   THEN UnsetActive(IF is_default THEN UnsetDefault(rows) ELSE rows)
                   ELSE IF is_default THEN UnsetDefault(rows) ELSE rows
        existing == {k \in DOMAIN cleared : cleared[k].name = config.name}
    IN  IF existing # {}
        THEN [k \in DOMAIN cleared |->
                 IF k \in existing
                 THEN [cleared[k] EXCEPT !.model = config.model,
                                         !.is_active = is_active,
                                         !.is_default = is_default]
                 ELSE cleared[k]]
        ELSE Append(cleared, [id |-> next_id, name |-> config.name,
                              model |-> config.model,
                              is_active |-> is_active, is_default |-> is_default])

\* the table after set_active_provider(provider_id)
SetActive(rows, provider_id) ==
    [k \in DOMAIN rows |->
        [rows[k] EXCEPT !.is_active = (rows[k].id = provider_id)]]

\* the table after set_default_provider(provider_id)
SetDefault(rows, provider_id) ==
    [k \in DOMAIN rows |->
        [rows[k] EXCEPT !.is_default = (rows[k].id = provider_id)]]

InitProvider ==
    /\ IdleProvider
    /\ IdleScopes /\ IdleQuery /\ IdleCosine /\ IdleSearch /\ IdleIngest
    /\ IdleReview /\ IdleDedupe /\ IdleParse
    /\ IdleRun /\ IdleChunk /\ IdleEmbed /\ IdleBatch /\ IdleStore

\* save_provider(config, is_active, is_default) returns the row's id
SaveProviderCall ==
    /\ pv_count < MaxProviderOps
    /\ \E config \in ProviderConfigs, is_active \in BOOLEAN, is_default \in BOOLEAN :
          LET rows == SaveProvider(pv_providers, pv_next_id, config, is_active,
                                   is_default)
              saved == CHOOSE k \in DOMAIN rows : rows[k].name = config.name
          IN  /\ pv_providers' = rows
              /\ pv_next_id' = IF Len(rows) > Len(pv_providers)
                               THEN pv_next_id + 1 ELSE pv_next_id
              /\ pv_last' = [op |-> "save_provider", returned |-> rows[saved].id]
    /\ pv_count' = pv_count + 1
    /\ UNCHANGED <<coreVars, newVars>>

\* set_active_provider(provider_id) returns cursor.rowcount > 0
SetActiveProvider ==
    /\ pv_count < MaxProviderOps
    /\ \E provider_id \in 1..pv_next_id :
          /\ pv_providers' = SetActive(pv_providers, provider_id)
          /\ pv_last' = [op |-> "set_active_provider",
                         returned |-> RowsWithId(pv_providers, provider_id) # {}]
    /\ pv_count' = pv_count + 1
    /\ UNCHANGED <<pv_next_id, coreVars, newVars>>

\* set_default_provider(provider_id) returns cursor.rowcount > 0
SetDefaultProvider ==
    /\ pv_count < MaxProviderOps
    /\ \E provider_id \in 1..pv_next_id :
          /\ pv_providers' = SetDefault(pv_providers, provider_id)
          /\ pv_last' = [op |-> "set_default_provider",
                         returned |-> RowsWithId(pv_providers, provider_id) # {}]
    /\ pv_count' = pv_count + 1
    /\ UNCHANGED <<pv_next_id, coreVars, newVars>>

\* delete_provider(provider_id) returns cursor.rowcount > 0
DeleteProvider ==
    /\ pv_count < MaxProviderOps
    /\ \E provider_id \in 1..pv_next_id :
          LET Kept(row) == row.id # provider_id
          IN  /\ pv_providers' = SelectSeq(pv_providers, Kept)
              /\ pv_last' = [op |-> "delete_provider",
                             returned |-> RowsWithId(pv_providers, provider_id) # {}]
    /\ pv_count' = pv_count + 1
    /\ UNCHANGED <<pv_next_id, coreVars, newVars>>

NextProvider ==
    SaveProviderCall \/ SetActiveProvider \/ SetDefaultProvider \/ DeleteProvider

SpecProvider == InitProvider /\ [][NextProvider]_vars

----------------------------------------------------------------------------
(* Claims about the review                                                 *)

\* the step is one iteration of the loop with choice "1"
ApproveStep == approve_streak' = approve_streak + 1

\* C1: whenever approve is taken with a non-empty request queue and the
\* requery processing runs, the queue is empty when the step ends, whether
\* the extraction returned triplets, returned nothing or raised.
C1_QueueEmptyAfterRequery ==
    [][(ApproveStep /\ requests # <<>> /\ "processing" \in Range(display'))
          => requests' = <<>>]_vars

C1_Witness ==
    /\ display = <<"processing", "error", "approved">>
    /\ requests = <<>>

\* C2 (as stated): an approve taken while the request queue is non-empty
\* never ends the review as Approved in that same action.
C2_PendingApproveNeverApproves ==
    [][(ApproveStep /\ requests # <<>>) => pc' # "Approved"]_vars

\* C2 (amended): an approve taken while the request queue is non-empty ends
\* the review as Approved in that same action exactly when the requery runs
\* and yields no triplets (an empty list, or the call raising); otherwise the
\* review is back at the Presented menu.  Approved is entered only by an
\* approve whose queue is empty at its approval check.
C2_PendingApproveOutcome ==
    [][/\ (ApproveStep /\ requests # <<>>) =>
             /\ pc' \in {"Presented", "Approved"}
             /\ pc' = "Approved" <=>
                    ("processing" \in Range(display') /\ additional_triplets' = <<>>)
       /\ (pc # "Approved" /\ pc' = "Approved") =>
             (ApproveStep /\ requests' = <<>>)]_vars

C2_Witness ==
    /\ pc = "Approved"
    /\ display = <<"processing", "no_additional_information", "approved">>

\* C3: two approve choices in a row, with no other action in between, end the
\* review as Approved: pending requests never keep approve from succeeding.
C3_ApproveTwiceReachesApproved ==
    approve_streak >= 2 => pc = "Approved"

\* The candidates, in candidate order, whose signature is neither among the
\* existing triplets' signatures nor that of an earlier candidate.
SubseqAt(s, keep) ==
    LET F[i \in 0..Len(s)] ==
            IF i = 0 THEN <<>>
            ELSE IF i \in keep THEN Append(F[i - 1], s[i]) ELSE F[i - 1]
    IN  F[Len(s)]

NewBySignature(existing, cands) ==
    SubseqAt(cands,
             {i \in DOMAIN cands :
                 /\ \A k \in DOMAIN existing :
                        Signature(existing[k]) # Signature(cands[i])
                 /\ \A j \in 1..(i - 1) :
                        Signature(cands[j]) # Signature(cands[i])})

\* C4: when a requery returns candidates, the triplet list after the merge is
\* the list before it followed by the candidates with a new signature, in
\* candidate order; its length grows by the number of new signatures.
C4_MergeAppendsNewSignatures ==
    [][(ApproveStep /\ "updated_set" \in Range(display')) =>
          /\ triplets' = triplets \o NewBySignature(triplets, additional_triplets')
          /\ SubSeq(triplets', 1, Len(triplets)) = triplets
          /\ Len(triplets') = Len(triplets) +
                Cardinality(ExistingSignatures(additional_triplets')
                               \ ExistingSignatures(triplets))]_vars

\* a requery found two new unique triplets and the list grew by both
C4_Witness ==
    /\ display = <<"processing", "added_new", "updated_set">>
    /\ Len(additional_triplets) = 2
    /\ Len(triplets) = 3
    /\ SubSeq(triplets, Len(triplets) - 1, Len(triplets)) = additional_triplets

\* C6: two triplets have the same signature exactly when their subject,
\* predicate and object are equal, so after a merge every candidate is in the
\* list: none is dropped as the duplicate of a triplet it differs from.
C6_SignatureIdentifiesTuple ==
    "updated_set" \in Range(display) =>
        /\ \A t1, t2 \in Range(triplets) \cup Range(additional_triplets) :
               (Signature(t1) = Signature(t2)) <=>
                   (/\ t1.subject = t2.subject
                    /\ t1.predicate = t2.predicate
                    /\ t1.object = t2.object)
        /\ \A c \in Range(additional_triplets) : c \in Range(triplets)

----------------------------------------------------------------------------
(* Claims about the deduplication step                                     *)

\* C5: the step is idempotent (applied to its own output it returns that
\* output, and re-run with its output merged it adds nothing); its output
\* holds no two triplets with one signature, has no more distinct signatures
\* than its input, and two identical triplets yield exactly one.
C5_DedupeIdempotent ==
    /\ dd_pc # "input" =>
          /\ \A i, j \in DOMAIN dd_unique :
                 Signature(dd_unique[i]) = Signature(dd_unique[j]) => i = j
          /\ Cardinality(ExistingSignatures(dd_unique))
                 <= Cardinality(ExistingSignatures(dd_candidates))
          /\ UniqueAdditional(dd_existing \o dd_unique, dd_candidates) = <<>>
          /\ (/\ dd_existing = <<>>
              /\ Len(dd_candidates) = 2
              /\ dd_candidates[1] = dd_candidates[2]) => Len(dd_unique) = 1
    /\ dd_pc = "twice" => dd_again = dd_unique

C5_Witness ==
    /\ dd_pc = "twice"
    /\ dd_existing = <<>>
    /\ Len(dd_candidates) = 2
    /\ dd_candidates[1] = dd_candidates[2]
    /\ Len(dd_again) = 1

----------------------------------------------------------------------------
(* Claims about the remove action                                          *)

\* x.strip() of a token is a decimal number
IsIndexToken(tok) ==
    Strip(tok) # <<>> /\ \A i \in DOMAIN Strip(tok) : Strip(tok)[i] \in DecimalDigits

\* the input is a comma-separated list of indices
IsIndexList(input) ==
    \A k \in DOMAIN Split(input, ",") : IsIndexToken(Split(input, ",")[k])

\* the 1-based positions the input names
NamedPositions(input) ==
    {IntValue(Strip(Split(input, ",")[k])) : k \in DOMAIN Split(input, ",")}

\* C7: given a comma-separated list of 1-based indices, the remove action
\* removes exactly the triplets at the distinct in-range positions named and
\* keeps the others in their order, without raising.
C7_RemovesExactlyNamed ==
    [][(choice' = "3" /\ triplets # <<>> /\ IsIndexList(remove_input')) =>
          /\ pc' = "Presented"
          /\ triplets' = SubseqAt(triplets,
                                  DOMAIN triplets \ NamedPositions(remove_input'))]_vars

\* C8: a removal input that mixes in a token that is not a number is an
\* input error: it leaves the triplet list and the request queue unchanged
\* and the review stays at its menu.
C8_MalformedInputChangesNothing ==
    [][(choice' = "3" /\ triplets # <<>> /\ ~IsIndexList(remove_input')) =>
          /\ triplets' = triplets
          /\ requests' = requests
          /\ pc' = "Presented"]_vars

----------------------------------------------------------------------------
(* Claims about _parse_resume_sections                                     *)

\* the lines of all sections' content, in section order
RECURSIVE ContentLines(_)
ContentLines(secs) ==
    IF secs = <<>> THEN <<>>
    ELSE Split(Head(secs).content, "\n") \o ContentLines(Tail(secs))

Groups(ls, cuts) ==
    LET bounds == <<0>> \o SubseqAt([i \in 1..Len(ls) |-> i], cuts) \o <<Len(ls)>>
    IN  [g \in 1..(Len(bounds) - 1) |-> SubSeq(ls, bounds[g] + 1, bounds[g + 1])]

HasText(ls) == \E k \in DOMAIN ls : Strip(ls[k]) # <<>>

\* C10: for a non-empty document no returned section has empty content and
\* the section list is not empty.  "Non-empty" is read in the claim's favour:
\* the document holds some text other than whitespace.
C10_NoEmptySection ==
    (parse_pc = "returned" /\ HasText(lines)) =>
        /\ sections # <<>>
        /\ \A k \in DOMAIN sections : sections[k].content # <<>>

----------------------------------------------------------------------------
(* Claims about ResumeGraphExtractionWorkflow.run                          *)

\* the triplets of the sections whose extraction returned, in section order
RECURSIVE SucceededTriplets(_)
SucceededTriplets(responses) ==
    IF responses = <<>> THEN <<>>
    ELSE (IF Head(responses).raised THEN <<>> ELSE Head(responses).triplets)
         \o SucceededTriplets(Tail(responses))

\* C11: run takes the sections one by one in document order; a section
\* whose extraction fails contributes nothing and the sections after it are
\* still processed; the returned list is the concatenation of the succeeded
\* sections' triplets, with validation_status true and no pending requests.
C11_FailedSectionNeverAborts ==
    /\ run_index = Len(run_responses)
    /\ all_triplets = SucceededTriplets(run_responses)
    /\ run_pc = "returned" /\ run_sections # <<>> =>
          /\ run_index = Len(run_sections)
          /\ run_output.triplets = SucceededTriplets(run_responses)
          /\ run_output.validation_status = TRUE
          /\ run_output.additional_extraction_requests = <<>>

\* a run whose second section failed and whose other sections delivered
C11_Witness ==
    /\ run_pc = "returned"
    /\ Len(run_responses) = 3
    /\ run_responses[1].triplets # <<>>
    /\ run_responses[2].raised
    /\ run_responses[3].triplets # <<>>
    /\ Len(run_output.triplets) = 2

RECURSIVE SumCounts(_)
SumCounts(counts) ==
    IF counts = <<>> THEN 0 ELSE Head(counts)[2] + SumCounts(Tail(counts))

\* C12: the summary has one count per processed section, also when two
\* sections have the same type, and the counts add up to the reported
\* total, which is the length of the returned list.
C12_SummaryCountsEverySection ==
    run_pc = "returned" /\ run_sections # <<>> =>
        LET message == run_output.validation_message
        IN  /\ Len(message.section_counts) = Len(run_sections)
            /\ SumCounts(message.section_counts) = message.total_triplets
            /\ message.total_triplets = Len(run_output.triplets)
----------------------------------------------------------------------------
(* Claims about EmbeddingService._chunk_text                               *)

RECURSIVE Concat(_)
Concat(ss) == IF ss = <<>> THEN <<>> ELSE Head(ss) \o Concat(Tail(ss))

\* C13: the chunks returned, concatenated in order, are the text.
C13_ChunksReconstructText ==
    (ck_pc = "returned" /\ ck_max_chars > 0) => Concat(ck_chunks) = ck_text

\* C14: no chunk returned is longer than max_chars = max_tokens * 4,
\* whether it was cut at a sentence boundary or at the hard limit.
C14_NoChunkExceedsBudget ==
    ck_max_chars > 0 => \A i \in DOMAIN ck_chunks : Len(ck_chunks[i]) <= ck_max_chars

\* a text cut once at a sentence boundary and once at the hard limit
C14_Witness ==
    /\ ck_pc = "returned"
    /\ Len(ck_chunks) = 2
    /\ ck_cuts = <<0, 2>>
    /\ Len(ck_chunks[2]) = ck_max_chars
----------------------------------------------------------------------------
(* Claims about EmbeddingService.generate_embedding                        *)

\* C15: every input handed to the provider is within the safe character
\* budget: the text itself only when it fits, a chunk otherwise.
C15_ProviderInputsWithinBudget ==
    \A i \in DOMAIN em_inputs : Len(em_inputs[i]) <= SafeChars(em_max_tokens)

\* the embeddings of the calls that succeeded, in call order
RECURSIVE Succeeded(_)
Succeeded(outcomes) ==
    IF outcomes = <<>> THEN <<>>
    ELSE (IF Head(outcomes).failed THEN <<>> ELSE <<Head(outcomes).embedding>>)
         \o Succeeded(Tail(outcomes))

\* C16: for a chunked text every chunk is handed to the provider, in order,
\* whatever happened to the chunks before it; the value returned is the
\* dimension-wise mean of the embeddings of the chunks that succeeded, and
\* it is the empty vector exactly when none succeeded.
C16_FailedChunkIsSkipped ==
    (em_pc = "returned" /\ Len(em_chunks) # 1 /\ em_max_tokens > 0) =>
        /\ em_inputs = em_chunks
        /\ Len(em_outcomes) = Len(em_chunks)
        /\ em_result = <<>> <=> Succeeded(em_outcomes) = <<>>
        /\ Succeeded(em_outcomes) # <<>> =>
               /\ Len(em_result) = Len(Succeeded(em_outcomes)[1])
               /\ \A dim \in DOMAIN em_result :
                      /\ em_result[dim].sum = SumAt(Succeeded(em_outcomes), dim)
                      /\ em_result[dim].over = Len(Succeeded(em_outcomes))

\* three chunks, the second failed, the mean is over the other two
C16_Witness ==
    /\ em_pc = "returned"
    /\ Len(em_chunks) = 3
    /\ ~em_outcomes[1].failed /\ em_outcomes[2].failed /\ ~em_outcomes[3].failed
    /\ em_outcomes[1].embedding # em_outcomes[3].embedding
    /\ em_result = << [sum |-> 4, over |-> 2], [sum |-> 4, over |-> 2] >>
----------------------------------------------------------------------------
(* Claims about EmbeddingService.generate_embeddings_batch                 *)

\* the text does not fit the safe budget generate_embedding chunks by
Oversized(length, limit) == length > SafeChars(limit)

\* C17: a call with input=texts is made only if no text is oversized for
\* the model's safe budget; if one is, no such call is made, every text goes
\* through generate_embedding in input order and one vector per text is
\* returned in input order.
C17_BatchOnlyWhenNothingOversized ==
    bt_max_tokens > 0 =>
        /\ bt_batch_calls # <<>> =>
               \A i \in DOMAIN bt_texts : ~Oversized(bt_texts[i], bt_max_tokens)
        /\ ((\E i \in DOMAIN bt_texts : Oversized(bt_texts[i], bt_max_tokens))
            /\ bt_pc = "returned") =>
               /\ bt_batch_calls = <<>>
               /\ bt_single = bt_texts
               /\ Len(bt_embeddings) = Len(bt_texts)
               /\ \A i \in DOMAIN bt_texts : bt_embeddings[i].text = bt_texts[i]
----------------------------------------------------------------------------
(* Claims about GraphDatabaseService.store_resume_graph                    *)

RECURSIVE ExecuteAll(_, _)
ExecuteAll(graph, queries) ==
    IF queries = <<>> THEN graph
    ELSE ExecuteAll(ExecuteQuery(graph, Head(queries)), Tail(queries))

\* the graph one successful call leaves, starting from the empty graph
StoredOnce ==
    ExecuteAll([nodes |-> <<>>, edges |-> <<>>],
               StoreQueries(st_triplets, st_resume_id, st_embeddings))

NoDuplicates(items) ==
    \A i, j \in DOMAIN items : items[i] = items[j] => i = j

\* C18: however often store_resume_graph is called with the same arguments,
\* and whichever of the calls failed part-way through, the graph never holds
\* a node or an edge twice, and from the first call that returned True on it
\* is the graph one successful call leaves.
C18_StoreIsIdempotent ==
    /\ NoDuplicates(graph_nodes)
    /\ NoDuplicates(graph_edges)
    /\ TRUE \in Range(st_results) =>
           /\ graph_nodes = StoredOnce.nodes
           /\ graph_edges = StoredOnce.edges

\* a call that failed after it had written, then a call that succeeded
C18_Witness ==
    /\ st_results = <<FALSE, TRUE>>
    /\ Len(graph_nodes) = 3
    /\ Len(graph_edges) = 2

HasNode(label, name, resume_id) ==
    MatchNodes(graph_nodes, label, name, resume_id) # {}

\* the (name, type) pairs that occur as subject or object
EntityKeys ==
    {<<st_triplets[i].subject, st_triplets[i].subject_type>> : i \in DOMAIN st_triplets}
    \cup
    {<<st_triplets[i].object, st_triplets[i].object_type>> : i \in DOMAIN st_triplets}

\* C19: after a successful store there is one node for every distinct
\* (name, type) of the resume, so every triplet's subject and object are
\* nodes with that triplet's subject_type / object_type label.
C19_OneNodePerNameAndType ==
    TRUE \in Range(st_results) =>
        /\ \A key \in EntityKeys : HasNode(key[2], key[1], st_resume_id)
        /\ Cardinality({n \in DOMAIN graph_nodes : graph_nodes[n].label # "Resume"})
               = Cardinality(EntityKeys)

\* a relationship query is executed
RelationshipStep ==
    /\ st_queue # <<>>
    /\ Head(st_queue).kind = "merge_edge"
    /\ st_queue' = Tail(st_queue)

\* the call returns True
ReturnsTrue ==
    /\ st_results' # st_results
    /\ st_results'[Len(st_results')] = TRUE

\* C20: a relationship query creates no node; it creates edges only from a
\* node matching the subject to a node matching the object, both of the
\* resume; when either is absent it changes nothing, and the call goes on
\* and returns True with exactly the edges whose endpoints exist.
C20_EdgeOnlyBetweenExistingNodes ==
    [][/\ RelationshipStep =>
            LET q == Head(st_queue)
                subjects == MatchNodes(graph_nodes, q.subject_label, q.subject,
                                       st_resume_id)
                objects == MatchNodes(graph_nodes, q.object_label, q.object,
                                      st_resume_id)
            IN  /\ graph_nodes' = graph_nodes
                /\ (subjects = {} \/ objects = {}) => graph_edges' = graph_edges
                /\ \A e \in DOMAIN graph_edges' \ DOMAIN graph_edges :
                       /\ graph_edges'[e].from \in subjects
                       /\ graph_edges'[e].to \in objects
       /\ ReturnsTrue =>
            \A i \in DOMAIN st_triplets :
                LET t == st_triplets[i]
                IN  (\E e \in DOMAIN graph_edges :
                        /\ graph_edges[e].type = t.predicate
                        /\ graph_nodes[graph_edges[e].from].label = t.subject_type
                        /\ graph_nodes[graph_edges[e].from].props.name = t.subject
                        /\ graph_nodes[graph_edges[e].to].label = t.object_type
                        /\ graph_nodes[graph_edges[e].to].props.name = t.object)
                    <=> (/\ HasNode(t.subject_type, t.subject, st_resume_id)
                         /\ HasNode(t.object_type, t.object, st_resume_id))
      ]_vars

\* a call that returned True although one of two triplets got no edge
C20_Witness ==
    /\ st_results = <<TRUE>>
    /\ Len(st_triplets) = 2
    /\ st_triplets[1].predicate # st_triplets[2].predicate
    /\ Len(graph_edges) = 1

----------------------------------------------------------------------------
(* Claims about deleting one resume from the shared graph                  *)

\* everything the graph holds for one resume: its entity nodes, its
\* relationships with their endpoints, its metadata record, and what the two
\* scoped queries return
ScopeView(graph, resume_id) ==
    LET Mine(node) == /\ "resume_id" \in DOMAIN node.props
                      /\ node.props.resume_id = resume_id
        MyEdge(edge) == edge.props.resume_id = resume_id
        Meta(node) == /\ node.label = "Resume"
                      /\ node.props.id = resume_id
        rows == SelectSeq(graph.edges, MyEdge)
    IN  [nodes |-> SelectSeq(graph.nodes, Mine),
         edges |-> [k \in DOMAIN rows |->
                       [from |-> graph.nodes[rows[k].from],
                        to |-> graph.nodes[rows[k].to],
                        type |-> rows[k].type, props |-> rows[k].props]],
         metadata |-> SelectSeq(graph.nodes, Meta),
         entities |-> GetResumeEntities(graph, resume_id),
         relationships |-> GetResumeRelationships(graph, resume_id)]

EmptyView ==
    [nodes |-> <<>>, edges |-> <<>>, metadata |-> <<>>, entities |-> <<>>,
     relationships |-> <<>>]

\* the step is a call of delete_resume_graph that returned True
DeleteReturnedTrue ==
    /\ Len(sc_calls') = Len(sc_calls) + 1
    /\ sc_calls'[Len(sc_calls')].op = "delete"
    /\ sc_calls'[Len(sc_calls')].ok

\* C21: after delete_resume_graph(S) returns True, the entity and
\* relationship queries for S return nothing and the metadata of S is gone,
\* while the nodes, edges, metadata and query results of every other resume
\* are what they were before the call, whatever calls came before.
C21_DeleteIsScoped ==
    [][DeleteReturnedTrue =>
          LET deleted == sc_calls'[Len(sc_calls')].resume_id
              before == [nodes |-> sc_nodes, edges |-> sc_edges]
              after == [nodes |-> sc_nodes', edges |-> sc_edges']
          IN  /\ ScopeView(after, deleted) = EmptyView
              /\ \A other \in ResumeIds \ {deleted} :
                    ScopeView(after, other) = ScopeView(before, other)]_vars

\* both resumes were stored, then the first was deleted: the second is there
C21_Witness ==
    /\ sc_calls = << [op |-> "store", resume_id |-> "r1", ok |-> TRUE],
                     [op |-> "store", resume_id |-> "r2", ok |-> TRUE],
                     [op |-> "delete", resume_id |-> "r1", ok |-> TRUE] >>
    /\ Len(sc_nodes) > 1
    /\ Len(sc_edges) > 0

----------------------------------------------------------------------------
(* Claims about the text of the queries                                    *)

\* where Cypher ends a backtick-quoted name that opens at text[1] (a doubled
\* backtick is a backtick of the name); 0 when it never ends
RECURSIVE QuotedNameEnd(_, _)
QuotedNameEnd(text, pos) ==
    IF pos > Len(text) THEN 0
    ELSE IF text[pos] # Backtick THEN QuotedNameEnd(text, pos + 1)
    ELSE IF pos < Len(text) /\ text[pos + 1] = Backtick
         THEN QuotedNameEnd(text, pos + 2)
    ELSE pos

\* where Cypher ends a single-quoted string that opens at text[1] (a
\* backslash takes the next character with it); 0 when it never ends
RECURSIVE QuotedStringEnd(_, _)
QuotedStringEnd(text, pos) ==
    IF pos > Len(text) THEN 0
    ELSE IF text[pos] = "\\" THEN QuotedStringEnd(text, pos + 2)
    ELSE IF text[pos] = "'" THEN pos
    ELSE QuotedStringEnd(text, pos + 1)

\* the characters of a name written without backticks
NameChars == {"a"}

\* the fragment is read as one token of the kind its slot holds
OneToken(fragment) ==
    CASE fragment.slot = "label" ->
             QuotedNameEnd(fragment.text, 2) = Len(fragment.text)
      [] fragment.slot = "literal" ->
             QuotedStringEnd(fragment.text, 2) = Len(fragment.text)
      [] OTHER -> \A k \in DOMAIN fragment.text : fragment.text[k] \in NameChars

\* C22: every entity type and predicate is escaped as an identifier before it
\* is used as a label or relationship type, and every literal is escaped, so
\* no value of subject_type, object_type, predicate or relationship_type (nor
\* of a quoted literal) can change the structure of the query it is put in.
C22_ValuesCannotChangeQuery ==
    \A k \in DOMAIN qy_built : OneToken(qy_built[k])

----------------------------------------------------------------------------
(* Claims about cosine similarity                                          *)

\* either vector has zero magnitude, or the dimensions differ
NoAngle == \/ SquareSum(cs_vec1) = 0
           \/ SquareSum(cs_vec2) = 0
           \/ Len(cs_vec1) # Len(cs_vec2)

\* C23: both _cosine_similarity methods return 0 whenever either vector has
\* zero magnitude and whenever the two vectors differ in dimension: a
\* dimension mismatch never yields a non-zero score.
C23_NoAngleMeansZero ==
    NoAngle =>
        /\ cs_graph.called => cs_graph.value.dot = 0
        /\ cs_embedding.called => cs_embedding.value.dot = 0

----------------------------------------------------------------------------
(* Claims about the semantic search                                        *)

\* the positions of the stored triplets a search is about
InSearchScope ==
    {k \in DOMAIN sr_rows :
        sr_results.by = "all" \/ sr_rows[k].resume_id = sr_resume_id}

Returned == {sr_results.results[k].row : k \in DOMAIN sr_results.results}

\* every result carries the maximum of the three similarities of its triplet
ScoredByMaximum ==
    \A k \in DOMAIN sr_results.results :
        sr_results.results[k].similarity_score
            = MaxSimilarity(sr_query, sr_rows[sr_results.results[k].row])

\* at most limit results, in non-increasing order of score
RankedAndLimited ==
    /\ Len(sr_results.results) <= sr_limit
    /\ \A k \in 1..(Len(sr_results.results) - 1) :
          SimilarityLeq(sr_results.results[k + 1].similarity_score,
                        sr_results.results[k].similarity_score)

\* the scoped search returns triplets of the given resume only
OnlyInScope == Returned \subseteq InSearchScope

\* no triplet left out scores strictly higher than one returned
NoneBetterOmitted ==
    \A omitted \in InSearchScope \ Returned : \A k \in Returned :
        SimilarityLeq(MaxSimilarity(sr_query, sr_rows[omitted]),
                      MaxSimilarity(sr_query, sr_rows[k]))

\* C24: both searches score each stored triplet by the maximum of its
\* subject, object and relationship similarity to the query (a missing
\* embedding counts as 0) and return at most limit results in non-increasing
\* order of score, such that no omitted triplet scores strictly higher than a
\* returned one; the scoped search returns only triplets of its resume_id.
C24_SearchReturnsTheBest ==
    sr_results.by # "none" =>
        ScoredByMaximum /\ RankedAndLimited /\ OnlyInScope /\ NoneBetterOmitted


\* no triplet with an embedding that was left out scores strictly higher
\* than one returned
NoneBetterOmittedOfEmbedded ==
    \A omitted \in InSearchScope \ Returned : \A k \in Returned :
        HasEmbedding(sr_rows[omitted]) =>
            SimilarityLeq(MaxSimilarity(sr_query, sr_rows[omitted]),
                          MaxSimilarity(sr_query, sr_rows[k]))

\* C24, amended: the searches rank the stored triplets that have at least
\* one embedding; among those, the results are the at most limit best by the
\* maximum similarity, in non-increasing order, and the scoped search returns
\* only triplets of its resume_id.
C24_SearchReturnsTheBestEmbedded ==
    sr_results.by # "none" =>
        /\ ScoredByMaximum /\ RankedAndLimited /\ OnlyInScope
        /\ NoneBetterOmittedOfEmbedded

\* a scoped search with limit 1 returned the better of two triplets of its
\* resume that have an embedding
C24_Witness ==
    /\ sr_results.by = "resume"
    /\ sr_limit = 1
    /\ Len(sr_results.results) = 1
    /\ \E omitted \in InSearchScope \ Returned :
          /\ HasEmbedding(sr_rows[omitted])
          /\ ~SimilarityLeq(sr_results.results[1].similarity_score,
                            MaxSimilarity(sr_query, sr_rows[omitted]))

----------------------------------------------------------------------------
(* Claims about the ingestion workflow                                     *)

\* the attempt got as far as storing and has returned or raised
StoreStepDone == ig_graph_ops # <<>>

\* C25: a failure of the graph backend during storage (no connection, or a
\* failing query) leaves the workflow result a success with the extraction
\* data and graph_stored False; when the backend accepts every query the
\* result is a success with graph_stored True.
C25_StorageOutcomeIsReported ==
    StoreStepDone =>
        /\ ig_pc = "returned"
        /\ ig_result.success
        /\ ig_result.graph_stored = (ig_backend = "up")
        /\ ig_result.validation_message = ig_extraction.validation_message

\* a validation flag reported the document invalid
ReportedInvalid ==
    /\ ig_read = "ok"
    /\ \/ ~ig_cleaning.validation_status
       \/ ~ig_extraction.validation_status

\* the message of the response that stopped the attempt
StoppingMessage ==
    IF ~ig_cleaning.validation_status THEN ig_cleaning.validation_message
    ELSE ig_extraction.validation_message

\* C26: when the cleaning or the extraction result has validation_status
\* false, the attempt ends with success False and an error that contains the
\* validation_message, and no graph store operation is invoked for it.
C26_InvalidDocumentIsNotStored ==
    ReportedInvalid =>
        /\ ig_graph_ops = <<>>
        /\ ig_pc # "raised"
        /\ ig_pc = "returned" =>
              /\ ~ig_result.success
              /\ \E k \in DOMAIN ig_result.error : ig_result.error[k] = StoppingMessage

\* an attempt whose cleaning passed and whose extraction was reported invalid
\* has returned
C26_Witness ==
    /\ ig_pc = "returned"
    /\ ig_read = "ok"
    /\ ig_cleaning.validation_status
    /\ ~ig_extraction.validation_status
    /\ ig_backend = "up"
    /\ ig_cleaning.validation_message # ig_extraction.validation_message

----------------------------------------------------------------------------
(* Claims about where _chunk_text cuts and whether it ends                 *)

\* the ends of the sentence delimiters that lie within text[lo:hi]
DelimiterEnds(s, lo, hi) ==
    {p + 2 : p \in {q \in lo..(hi - 2) :
                       \E d \in DOMAIN Delimiters : Slice(s, q, q + 2) = Delimiters[d]}}

\* the step is an iteration that has to cut before the end of the text
CutsBeforeEnd ==
    /\ ck_cuts' # ck_cuts
    /\ ck_max_chars > 0
    /\ ck_start + ck_max_chars < Len(ck_text)

\* C27: when _chunk_text must cut, the chunk ends right after the latest
\* sentence delimiter that lies entirely within the look-back window before
\* the hard cutoff, whichever of the six delimiters it is, and exactly at
\* the hard cutoff when the window holds none.
C27_CutsAfterLatestDelimiter ==
    [][CutsBeforeEnd =>
          LET end == ck_start + ck_max_chars
              ends == DelimiterEnds(ck_text, Max2(ck_start, end - ck_look_back), end)
          IN  IF ends = {} THEN ck_start' = end
              ELSE ck_start' = CHOOSE e \in ends : \A other \in ends : other <= e]_vars

\* C28: _chunk_text terminates for every text and every max_tokens >= 0:
\* each iteration of the loop strictly increases start, so the loop runs at
\* most len(text) times.
C28_EveryIterationAdvances ==
    [][ck_cuts' # ck_cuts =>
          /\ ck_start' > ck_start
          /\ Len(ck_cuts') <= Len(ck_text)]_vars

----------------------------------------------------------------------------
(* Claims about the embedding stored with an entity                        *)

\* the name whose text the embedding <<role, i>> was computed from
\* (embed_graph_data embeds the subject and the object of triplet i)
EmbeddedName(embedding) ==
    IF embedding[1] = "subject" THEN st_triplets[embedding[2]].subject
    ELSE st_triplets[embedding[2]].object

\* C29: store_resume_graph stores every entity node with the embedding that
\* was computed for that same entity: a node gets the subject embedding of a
\* triplet only when it is that triplet's subject, and the object embedding
\* only when it is its object.
C29_NodeHasItsOwnEmbedding ==
    \A n \in DOMAIN graph_nodes :
        (graph_nodes[n].label # "Resume"
            /\ Len(graph_nodes[n].props.embedding) = 2)
        => EmbeddedName(graph_nodes[n].props.embedding) = graph_nodes[n].props.name

----------------------------------------------------------------------------
(* Claims about the stored providers                                       *)

\* the step is a set_active_provider or set_default_provider call that
\* returned False
SetReturnedFalse ==
    /\ pv_count' = pv_count + 1
    /\ pv_last'.op \in {"set_active_provider", "set_default_provider"}
    /\ pv_last'.returned = FALSE

\* C30: a set_active_provider or set_default_provider call that returns
\* False (no provider has the id) leaves the stored providers unchanged: the
\* provider that was active (default) before the call still is after it.
C30_FailedSetChangesNothing ==
    [][SetReturnedFalse => pv_providers' = pv_providers]_vars

====
